---- MODULE Spec2Model ----
(***************************************************************************)
(* kmbio.PDB: the StructureBuilder (core/structure_builder.py), which      *)
(* turns a stream of construction events into a Structure -> Model ->      *)
(* Chain -> Residue -> Atom tree and resolves residue and atom disorder,   *)
(* and PDBIO with its Select policies (io/savers.py), which writes such a  *)
(* tree as PDB records; modelled as a state machine over an object heap.   *)
(*                                                                         *)
(* Objects live in per-class sequences; an object's identity is its index. *)
(* A builder's fields (self.structure, self.model, ...) hold indices, so   *)
(* that a cursor can keep pointing at an object that left the tree.        *)
(* The entity classes (Entity, Residue, DisorderedResidue, Atom,           *)
(* DisorderedAtom) are kmbio.PDB.core modules outside the files at hand;   *)
(* their operations are modelled from the specification's data model.      *)
(***************************************************************************)
EXTENDS Integers, Sequences, FiniteSets, TLC

VARIABLES
    structures,  \* Structure objects: [id, children (model oids)]
    models,      \* Model objects: [id, serial_num, children (chain oids)]
    chains,      \* Chain objects: [id, children (residue refs)]
    residues,    \* Residue objects: [id, resname, segid, disordered, children (atom refs)]
    dresidues,   \* DisorderedResidue objects: [id, disordered, children (residue oids), selected]
    atoms,       \* Atom objects: [name, fullname, altloc, occupancy, serial_number,
                 \*   element, disordered_flag]
    datoms,      \* DisorderedAtom objects: [id, children (atom oids), keys (the altloc
                 \*   each child was stored under), selected, last_occupancy,
                 \*   shadowed (it carries a disordered_flag and an altloc of its own)]
    sb,          \* the StructureBuilder instances: b -> [structure, model, chain, residue, atom, segid]
    begun,       \* history: the (model oid, chain id) pairs init_chain was called with
    last,        \* history: the last event fed, its arguments and whether it raised
    nev,         \* history: number of events fed so far
    hist,        \* history: [raised: PDBConstructionExceptions raised so far,
                 \*   dropped: init_atom calls that returned at once,
                 \*   zone: the last init_residue fed raised]
    io,          \* the PDBIO instance: [use_model_flag, structure]
    files,       \* file objects: [opened_by, closed, lines (the records written)]
    saves,       \* history: the calls of PDBIO.save so far, with what each wrote
    reader,      \* a reader of a written file: [builder (the builder it feeds), pos
                 \*   (the record it is at), model_open, current_model_id,
                 \*   current_chain_id, current_segid, current_residue_id,
                 \*   current_resname]
    dom          \* the input domains of the run (fixed by Init)

vars ==
    <<structures, models, chains, residues, dresidues, atoms, datoms, sb, begun, last,
      nev, hist, io, files, saves, reader, dom>>

serializer == <<io, files, saves, reader>>

heap == <<structures, models, chains, residues, dresidues, atoms, datoms>>

\* ------------------------------------------------------------------ bounds

\* Number of events fed to a builder in one run.
MaxEvents == 8

\* ------------------------------------------------------------------ values

None == 0

NoRef == [kind |-> "None", oid |-> 0]
RRef(o) == [kind |-> "R", oid |-> o]
DRRef(o) == [kind |-> "DR", oid |-> o]
ARef(o) == [kind |-> "A", oid |-> o]
DARef(o) == [kind |-> "DA", oid |-> o]

\* Characters of a padded atom name are kept apart, so that stripping is computed.
Blank == " "

\* Occupancy a DisorderedAtom starts from, below every real occupancy.
NoOccupancy == -1

\* Occupancies that are no numbers: None, and an object "%6.2f" cannot format (a
\* string, say).
AbsentOccupancy == -2
InvalidOccupancy == -3

RECURSIVE LStrip(_)
LStrip(s) == IF s # <<>> /\ Head(s) = Blank THEN LStrip(Tail(s)) ELSE s

RECURSIVE RStrip(_)
RStrip(s) ==
    IF s # <<>> /\ s[Len(s)] = Blank THEN RStrip(SubSeq(s, 1, Len(s) - 1)) ELSE s

\* The atom name a caller passes next to fullname: "spaces should be stripped".
Strip(fullname) == RStrip(LStrip(fullname))

\* The elements of a sequence.
SeqToSet(q) == {q[i] : i \in 1..Len(q)}

\* ------------------------------------------------------------------ entities

\* Keys of the children of a chain, a residue, a DisorderedResidue, a DisorderedAtom,
\* read in the heap pieces rs/drs/as/das (an action reads them in mid-flight heaps).
ResidueKey(rs, drs, ref) ==
    IF ref.kind = "R" THEN rs[ref.oid].id ELSE drs[ref.oid].id

AtomKey(as, das, ref) ==
    IF ref.kind = "A" THEN as[ref.oid].name ELSE das[ref.oid].id

\* The keys of a sequence of children, in order: entities keyed by their id, the
\* variants of a DisorderedResidue by residue name, those of a DisorderedAtom by altloc.
IdKeys(es, children) == [i \in 1..Len(children) |-> es[children[i]].id]

ResidueKeys(rs, drs, children) ==
    [i \in 1..Len(children) |-> ResidueKey(rs, drs, children[i])]

AtomKeys(as, das, children) ==
    [i \in 1..Len(children) |-> AtomKey(as, das, children[i])]

ResnameKeys(rs, children) == [i \in 1..Len(children) |-> rs[children[i]].resname]

\* Entity.__contains__, __getitem__, __delitem__ and add on an insertion-ordered
\* mapping held as the sequence of its values, keys being the keys of the values.
HasId(keys, k) == \E i \in 1..Len(keys) : keys[i] = k

IndexOfId(keys, k) == CHOOSE i \in 1..Len(keys) : keys[i] = k

GetChild(keys, children, k) == children[IndexOfId(keys, k)]

DetachChild(keys, children, k) ==
    LET kept == SelectSeq([i \in 1..Len(children) |-> i], LAMBDA i : keys[i] # k)
    IN [j \in 1..Len(kept) |-> children[kept[j]]]

\* A mapping assignment: a key already present keeps its place and gets the new value.
AddChild(keys, children, k, c) ==
    IF HasId(keys, k)
    THEN [children EXCEPT ![IndexOfId(keys, k)] = c]
    ELSE Append(children, c)

NewStructure(structure_id) == [id |-> structure_id, children |-> <<>>]

NewModel(model_id, serial_num) ==
    [id |-> model_id, serial_num |-> serial_num, children |-> <<>>]

NewChain(chain_id) == [id |-> chain_id, children |-> <<>>]

NewResidue(res_id, resname, segid) ==
    [id |-> res_id, resname |-> resname, segid |-> segid, disordered |-> 0,
     children |-> <<>>]

\* A DisorderedResidue reports disorder level 2 ("disordered = {0, 1, 2}").
NewDisorderedResidue(res_id) ==
    [id |-> res_id, disordered |-> 2, children |-> <<>>, selected |-> None]

NewAtom(name, occupancy, altloc, fullname, serial_number, element) ==
    [name |-> name, fullname |-> fullname, altloc |-> altloc,
     occupancy |-> occupancy, serial_number |-> serial_number,
     element |-> element, disordered_flag |-> 0]

NewDisorderedAtom(name) ==
    [id |-> name, children |-> <<>>, keys |-> <<>>, selected |-> None,
     last_occupancy |-> NoOccupancy, shadowed |-> FALSE]

\* DisorderedResidue: the variants are keyed by residue name.
disordered_has_id(rs, dr, resname) ==
    HasId(ResnameKeys(rs, dr.children), resname)

disordered_select(dr, resname) == [dr EXCEPT !.selected = resname]

\* DisorderedResidue.disordered_add: store under the residue's name and select it.
disordered_add_residue(rs, dr, o) ==
    disordered_select(
        [dr EXCEPT !.children =
            AddChild(ResnameKeys(rs, dr.children), dr.children, rs[o].resname, o)],
        rs[o].resname)

\* The selected variant of a DisorderedResidue.
SelectedResidue(rs, dr) ==
    GetChild(ResnameKeys(rs, dr.children), dr.children, dr.selected)

\* The Residue a residue cursor's tree operations act on: the residue itself, or the
\* selected variant of a DisorderedResidue.
Target(rs, drs, ref) ==
    IF ref.kind = "R" THEN ref.oid ELSE SelectedResidue(rs, drs[ref.oid])

\* The selected variant of a DisorderedAtom.
SelectedAtom(as, da) == GetChild(da.keys, da.children, da.selected)

\* Residue.get_unpacked_list: the atoms of a residue, every DisorderedAtom expanded
\* into its variants.
RECURSIVE Flatten(_)
Flatten(ss) == IF ss = <<>> THEN <<>> ELSE Head(ss) \o Flatten(Tail(ss))

\* Mutant: a DisorderedAtom is unpacked into its first variant only.
UnpackedAtoms_first(das, r) ==
    Flatten([i \in 1..Len(r.children) |->
        IF r.children[i].kind = "A"
        THEN <<r.children[i].oid>>
        ELSE <<das[r.children[i].oid].children[1]>>])

UnpackedAtoms(das, r) ==
    Flatten([i \in 1..Len(r.children) |->
        IF r.children[i].kind = "A"
        THEN <<r.children[i].oid>>
        ELSE das[r.children[i].oid].children])

\* Chain.get_unpacked_list: the residues of a chain, every DisorderedResidue
\* expanded into its variants.
UnpackedResidues(drs, c) ==
    Flatten([i \in 1..Len(c.children) |->
        IF c.children[i].kind = "R"
        THEN <<c.children[i].oid>>
        ELSE drs[c.children[i].oid].children])

\* ------------------------------------------------------------------ builder

\* self.segid before init_seg, self.residue before init_residue: attributes not yet set.
NoSegid == "unset"
UnsetRef == [kind |-> "Unset", oid |-> 0]

NewBuilder ==
    [structure |-> None, model |-> None, chain |-> None, residue |-> UnsetRef,
     atom |-> None, segid |-> NoSegid]

Builders == DOMAIN sb

NoEvent == [op |-> "none", b |-> 0, exc |-> "none"]

\* init_structure: a new Structure; the other cursors are left as they are.
\* Mutant: the structure is kept on the class, for all builders.
init_structure_shared(b, structure_id) ==
    /\ structures' = Append(structures, NewStructure(structure_id))
    /\ sb' = [x \in DOMAIN sb |-> [sb[x] EXCEPT !.structure = Len(structures) + 1]]
    /\ last' = [op |-> "init_structure", b |-> b, exc |-> "none",
                structure_id |-> structure_id]
    /\ UNCHANGED <<models, chains, residues, dresidues, atoms, datoms, begun>>

init_structure(b, structure_id) ==
    /\ structures' = Append(structures, NewStructure(structure_id))
    /\ sb' = [sb EXCEPT ![b].structure = Len(structures) + 1]
    /\ last' = [op |-> "init_structure", b |-> b, exc |-> "none",
                structure_id |-> structure_id]
    /\ UNCHANGED <<models, chains, residues, dresidues, atoms, datoms, begun>>

\* init_model: a new Model, added to the current structure.
init_model(b, model_id, serial_num) ==
    LET s == sb[b].structure
        m == Len(models) + 1
        ms == Append(models, NewModel(model_id, serial_num))
    IN /\ s # None
       /\ models' = ms
       /\ structures' = [structures EXCEPT ![s].children =
              AddChild(IdKeys(ms, @), @, model_id, m)]
       /\ sb' = [sb EXCEPT ![b].model = m]
       /\ last' = [op |-> "init_model", b |-> b, exc |-> "none",
                   model_id |-> model_id, serial_num |-> serial_num]
       /\ UNCHANGED <<chains, residues, dresidues, atoms, datoms, begun>>

\* Mutant: the chain re-opened is the model's first one, whatever its id.
reopen_first_chain(m, chain_id) ==
    [chains |-> chains, models |-> models, chain |-> models[m].children[1]]

\* The branch of init_chain for a chain id the model already has.
reopen_chain(m, chain_id) ==
    [chains |-> chains, models |-> models,
     chain |-> GetChild(IdKeys(chains, models[m].children), models[m].children, chain_id)]

\* The branch of init_chain for a chain id new to the model.
create_chain(m, chain_id) ==
    LET c == Len(chains) + 1
        cs == Append(chains, NewChain(chain_id))
    IN [chains |-> cs,
        models |-> [models EXCEPT ![m].children =
            AddChild(IdKeys(cs, @), @, chain_id, c)],
        chain |-> c]

init_chain_result(m, chain_id) ==
    IF HasId(IdKeys(chains, models[m].children), chain_id)
    THEN reopen_chain(m, chain_id)
    ELSE create_chain(m, chain_id)

init_chain(b, chain_id) ==
    LET m == sb[b].model
        st == init_chain_result(m, chain_id)
    IN /\ m # None
       /\ chains' = st.chains
       /\ models' = st.models
       /\ sb' = [sb EXCEPT ![b].chain = st.chain]
       /\ begun' = begun \cup {<<m, chain_id>>}
       /\ last' = [op |-> "init_chain", b |-> b, exc |-> "none", chain_id |-> chain_id,
                   model |-> m]
       /\ UNCHANGED <<structures, residues, dresidues, atoms, datoms>>

init_seg(b, segid) ==
    /\ sb' = [sb EXCEPT ![b].segid = segid]
    /\ last' = [op |-> "init_seg", b |-> b, exc |-> "none", segid |-> segid]
    /\ UNCHANGED <<structures, models, chains, residues, dresidues, atoms, datoms, begun>>

\* Mutant: the residue is iterated without unpacking, so a DisorderedAtom answers
\* with the altloc of its selected variant only.
is_completely_disordered_packed(r) ==
    \A i \in 1..Len(residues[r].children) :
        LET x == residues[r].children[i]
        IN IF x.kind = "A"
           THEN atoms[x.oid].altloc # Blank
           ELSE atoms[SelectedAtom(atoms, datoms[x.oid])].altloc # Blank

\* _is_completely_disordered: no atom of the unpacked residue has a blank altloc.
is_completely_disordered(r) ==
    LET atom_list == UnpackedAtoms(datoms, residues[r])
    IN \A i \in 1..Len(atom_list) : atoms[atom_list[i]].altloc # Blank

\* The residue id init_residue looks up: the hetero field of a hetero residue is
\* H_ + the residue name.
ResId(resname, field, resseq, icode) ==
    <<IF field = "H" THEN <<"H_", resname>> ELSE <<field>>, resseq, icode>>

BlankField == <<Blank>>

\* What init_residue may change, threaded through its statements.
ResidueState(b) ==
    [chains |-> chains, residues |-> residues, dresidues |-> dresidues,
     residue |-> sb[b].residue, exc |-> "none"]

\* self.residue = Residue(...); self.chain.add(self.residue)
fresh_residue(st, c, segid, res_id, resname) ==
    LET o == Len(st.residues) + 1
        rs == Append(st.residues, NewResidue(res_id, resname, segid))
    IN [st EXCEPT
          !.residues = rs,
          !.chains[c].children =
              AddChild(ResidueKeys(rs, st.dresidues, @), @, res_id, RRef(o)),
          !.residue = RRef(o)]

\* The DisorderedResidue already has a variant of this name: select it. There is no
\* return after the selection, so control runs on to the end of init_residue.
select_variant(st, c, segid, res_id, resname, dup) ==
    fresh_residue(
        [st EXCEPT !.residue = dup,
                   !.dresidues[dup.oid] = disordered_select(@, resname)],
        c, segid, res_id, resname)

\* The DisorderedResidue has no variant of this name: add a new Residue to it.
add_variant(st, segid, res_id, resname, dup) ==
    LET o == Len(st.residues) + 1
        rs == Append(st.residues, NewResidue(res_id, resname, segid))
    IN [st EXCEPT
          !.residues = rs,
          !.dresidues[dup.oid] = disordered_add_residue(rs, @, o),
          !.residue = dup]

\* Mutant: the relisted residue is found but not made current.
reuse_residue_no_cursor(st, dup) == st

\* A plain Residue of the same name: it becomes current.
reuse_residue(st, dup) == [st EXCEPT !.residue = dup]

\* Mutant: the exception is raised but self.residue is left as it was.
reject_conflict_keep_cursor(st) == [st EXCEPT !.exc = "PDBConstructionException"]

\* A plain Residue of another name with a blank altloc: the residue is dropped.
reject_conflict(st) ==
    [st EXCEPT !.residue = NoRef, !.exc = "PDBConstructionException"]

\* Mutant: the new residue is added to the wrapper before the earlier one.
wrap_conflict_new_first(st, c, segid, res_id, resname, dup) ==
    LET o == Len(st.residues) + 1
        rs == Append(st.residues, NewResidue(res_id, resname, segid))
        d == Len(st.dresidues) + 1
        drs0 == Append(st.dresidues, NewDisorderedResidue(res_id))
        detached == DetachChild(ResidueKeys(rs, drs0, st.chains[c].children),
                st.chains[c].children, res_id)
        drs1 == [drs0 EXCEPT ![d] = disordered_add_residue(rs, @, o)]
        drs2 == [drs1 EXCEPT ![d] = disordered_add_residue(rs, @, dup.oid)]
    IN [st EXCEPT
          !.residues = rs,
          !.dresidues = drs2,
          !.chains[c].children =
              AddChild(ResidueKeys(rs, drs0, detached), detached, res_id, DRRef(d)),
          !.residue = DRRef(d)]

\* A plain, completely disordered Residue of another name: a point mutation.
wrap_conflict(st, c, segid, res_id, resname, dup) ==
    LET o == Len(st.residues) + 1
        rs == Append(st.residues, NewResidue(res_id, resname, segid))
        d == Len(st.dresidues) + 1
        drs0 == Append(st.dresidues, NewDisorderedResidue(res_id))
        detached == DetachChild(ResidueKeys(rs, drs0, st.chains[c].children),
                st.chains[c].children, res_id)
        drs1 == [drs0 EXCEPT ![d] = disordered_add_residue(rs, @, dup.oid)]
        drs2 == [drs1 EXCEPT ![d] = disordered_add_residue(rs, @, o)]
    IN [st EXCEPT
          !.residues = rs,
          !.dresidues = drs2,
          !.chains[c].children =
              AddChild(ResidueKeys(rs, drs0, detached), detached, res_id, DRRef(d)),
          !.residue = DRRef(d)]

\* The conflict resolution of init_residue for a blank hetero field whose residue id
\* the chain already holds.
resolve_duplicate(st, c, segid, res_id, resname) ==
    LET dup == GetChild(ResidueKeys(st.residues, st.dresidues, st.chains[c].children),
            st.chains[c].children, res_id)
    IN IF dup.kind = "DR"
       THEN IF disordered_has_id(st.residues, st.dresidues[dup.oid], resname)
            THEN select_variant(st, c, segid, res_id, resname, dup)
            ELSE add_variant(st, segid, res_id, resname, dup)
       ELSE IF resname = st.residues[dup.oid].resname
            THEN reuse_residue(st, dup)
            ELSE IF ~is_completely_disordered(dup.oid)
                 THEN reject_conflict(st)
                 ELSE wrap_conflict(st, c, segid, res_id, resname, dup)

\* init_residue with the key looked up whatever the hetero field is.
init_residue_result_any_field(b, resname, field, resseq, icode) ==
    LET st == ResidueState(b)
        c == sb[b].chain
        res_id == ResId(resname, field, resseq, icode)
    IN IF HasId(ResidueKeys(residues, dresidues, chains[c].children), res_id)
       THEN resolve_duplicate(st, c, sb[b].segid, res_id, resname)
       ELSE fresh_residue(st, c, sb[b].segid, res_id, resname)

init_residue_result(b, resname, field, resseq, icode) ==
    LET st == ResidueState(b)
        c == sb[b].chain
        res_id == ResId(resname, field, resseq, icode)
    IN IF res_id[1] = BlankField
          /\ HasId(ResidueKeys(residues, dresidues, chains[c].children), res_id)
       THEN resolve_duplicate(st, c, sb[b].segid, res_id, resname)
       ELSE fresh_residue(st, c, sb[b].segid, res_id, resname)

init_residue(b, resname, field, resseq, icode) ==
    /\ sb[b].chain # None
    /\ sb[b].segid # NoSegid
    /\ LET st == init_residue_result(b, resname, field, resseq, icode)
       IN /\ chains' = st.chains
          /\ residues' = st.residues
          /\ dresidues' = st.dresidues
          /\ sb' = [sb EXCEPT ![b].residue = st.residue]
          /\ last' = [op |-> "init_residue", b |-> b, exc |-> st.exc,
                      resname |-> resname, field |-> field, resseq |-> resseq,
                      icode |-> icode,
                      res_id |-> ResId(resname, field, resseq, icode),
                      chain |-> sb[b].chain]
    /\ UNCHANGED <<structures, models, atoms, datoms, begun>>

\* DisorderedAtom.disordered_add: flag the atom as disordered, store it under its
\* altloc, and select it when its occupancy is the highest seen so far.
\* Returns the new atoms and datoms.
disordered_add_atom(as, das, d, a) ==
    LET as1 == [as EXCEPT ![a].disordered_flag = 1]
        da1 == [das[d] EXCEPT
                   !.children = AddChild(das[d].keys, @, as1[a].altloc, a),
                   !.keys = AddChild(@, @, as1[a].altloc, as1[a].altloc)]
        da2 == IF as1[a].occupancy > da1.last_occupancy
               THEN [da1 EXCEPT !.last_occupancy = as1[a].occupancy,
                                !.selected = as1[a].altloc]
               ELSE da1
    IN [atoms |-> as1, datoms |-> [das EXCEPT ![d] = da2]]

\* duplicate_atom.fullname: a DisorderedAtom answers for its selected variant.
FullnameOf(as, das, ref) ==
    IF ref.kind = "A" THEN as[ref.oid].fullname
    ELSE as[SelectedAtom(as, das[ref.oid])].fullname

\* residue.disordered = 1, an attribute assignment on the object self.residue holds.
flag_disordered(st, ref) ==
    IF ref.kind = "R"
    THEN [st EXCEPT !.residues[ref.oid].disordered = 1]
    ELSE [st EXCEPT !.dresidues[ref.oid].disordered = 1]

\* What init_atom may change, threaded through its statements.
AtomState(b) ==
    [residues |-> residues, dresidues |-> dresidues, atoms |-> atoms,
     datoms |-> datoms, atom |-> sb[b].atom]

\* Mutant: the stripped name is kept when the full names differ.
resolved_name_stripped(t, name, fullname) == name

\* The name the new atom is created under: the incoming full name when the residue
\* holds an entry of that name with another full name.
resolved_name(t, name, fullname) ==
    IF HasId(AtomKeys(atoms, datoms, residues[t].children), name)
       /\ FullnameOf(atoms, datoms,
              GetChild(AtomKeys(atoms, datoms, residues[t].children),
                      residues[t].children, name)) # fullname
    THEN fullname
    ELSE name

\* self.atom = Atom(...)
create_atom(st, name, occupancy, altloc, fullname, serial_number, element) ==
    [st EXCEPT !.atoms = Append(@, NewAtom(name, occupancy, altloc, fullname,
                                           serial_number, element)),
               !.atom = Len(st.atoms) + 1]

\* Not disordered: residue.add(self.atom)
add_plain_atom(st, t, name) ==
    [st EXCEPT !.residues[t].children =
        AddChild(AtomKeys(st.atoms, st.datoms, @), @, name, ARef(st.atom))]

\* Disordered, and the residue holds a DisorderedAtom of this name.
add_altloc(st, dup) ==
    LET r == disordered_add_atom(st.atoms, st.datoms, dup.oid, st.atom)
    IN [st EXCEPT !.atoms = r.atoms, !.datoms = r.datoms]

\* Mutant: the plain atom is detached and never put into the DisorderedAtom.
wrap_atom_drop_old(st, residue, t, name, dup) ==
    LET d == Len(st.datoms) + 1
        das0 == Append(st.datoms, NewDisorderedAtom(name))
        detached == DetachChild(AtomKeys(st.atoms, das0, st.residues[t].children),
                st.residues[t].children, name)
        added == AddChild(AtomKeys(st.atoms, das0, detached), detached, name,
                     DARef(d))
        r1 == disordered_add_atom(st.atoms, das0, d, st.atom)
    IN flag_disordered(
           [st EXCEPT !.residues[t].children = added,
                      !.atoms = r1.atoms, !.datoms = r1.datoms],
           residue)

\* Disordered, and the residue holds a plain Atom of this name: both go into a new
\* DisorderedAtom, the new atom first.
wrap_atom(st, residue, t, name, dup) ==
    LET d == Len(st.datoms) + 1
        das0 == Append(st.datoms, NewDisorderedAtom(name))
        detached == DetachChild(AtomKeys(st.atoms, das0, st.residues[t].children),
                st.residues[t].children, name)
        added == AddChild(AtomKeys(st.atoms, das0, detached), detached, name,
                     DARef(d))
        r1 == disordered_add_atom(st.atoms, das0, d, st.atom)
        r2 == disordered_add_atom(r1.atoms, r1.datoms, d, dup.oid)
    IN flag_disordered(
           [st EXCEPT !.residues[t].children = added,
                      !.atoms = r2.atoms, !.datoms = r2.datoms],
           residue)

\* Disordered, and the residue holds no entry of this name: a new DisorderedAtom.
\* The disorder flag is set only on a Residue instance.
new_disordered_atom(st, residue, t, name) ==
    LET d == Len(st.datoms) + 1
        das0 == Append(st.datoms, NewDisorderedAtom(name))
        added == AddChild(AtomKeys(st.atoms, das0, st.residues[t].children),
                st.residues[t].children, name, DARef(d))
        r1 == disordered_add_atom(st.atoms, das0, d, st.atom)
        st1 == [st EXCEPT !.residues[t].children = added,
                          !.atoms = r1.atoms, !.datoms = r1.datoms]
    IN IF residue.kind = "R" THEN flag_disordered(st1, residue) ELSE st1

\* The insertion of the created atom into the current residue.
insert_atom(st, residue, t, name, altloc) ==
    IF altloc # Blank
    THEN IF HasId(AtomKeys(st.atoms, st.datoms, st.residues[t].children), name)
         THEN LET dup == GetChild(AtomKeys(st.atoms, st.datoms, st.residues[t].children),
                 st.residues[t].children, name)
              IN IF dup.kind = "DA"
                 THEN add_altloc(st, dup)
                 ELSE wrap_atom(st, residue, t, name, dup)
         ELSE new_disordered_atom(st, residue, t, name)
    ELSE add_plain_atom(st, t, name)

init_atom_result(b, name, occupancy, altloc, fullname, serial_number, element) ==
    LET residue == sb[b].residue
    IN IF residue = NoRef
       THEN AtomState(b)
       ELSE LET t == Target(residues, dresidues, residue)
                n == resolved_name(t, name, fullname)
            IN insert_atom(
                   create_atom(AtomState(b), n, occupancy, altloc, fullname,
                       serial_number, element),
                   residue, t, n, altloc)

init_atom(b, name, occupancy, altloc, fullname, serial_number, element) ==
    /\ sb[b].residue # UnsetRef
    /\ LET st == init_atom_result(b, name, occupancy, altloc, fullname, serial_number,
                     element)
       IN /\ residues' = st.residues
          /\ dresidues' = st.dresidues
          /\ atoms' = st.atoms
          /\ datoms' = st.datoms
          /\ sb' = [sb EXCEPT ![b].atom = st.atom]
          /\ last' = [op |-> "init_atom", b |-> b, exc |-> "none",
                      name |-> name, fullname |-> fullname, altloc |-> altloc,
                      occupancy |-> occupancy, serial_number |-> serial_number,
                      element |-> element, residue |-> sb[b].residue]
    /\ UNCHANGED <<structures, models, chains, begun>>

\* ------------------------------------------------------------------ serializer

\* PDBIO.__init__
NewPDBIO(use_model_flag) == [use_model_flag |-> use_model_flag, structure |-> None]

\* The selection policies: Select accepts everything, NotDisordered collapses
\* disorder, and a custom policy is a subclass of Select whose predicates reject the
\* objects of `rejected` (pairs <<level, object>>) and change nothing.
Select == [kind |-> "Select", rejected |-> {}]

NotDisordered == [kind |-> "NotDisordered", rejected |-> {}]

CustomSelect(rejected) == [kind |-> "Custom", rejected |-> rejected]

\* atom.disordered_flag and atom.altloc as NotDisordered.accept_atom reads them: a
\* DisorderedAtom answers with its own attributes once they were assigned, and with
\* those of its selected variant before.
FlagOf(t, x) ==
    IF x.kind = "A" THEN t.atoms[x.oid].disordered_flag
    ELSE IF t.datoms[x.oid].shadowed THEN 0
    ELSE t.atoms[SelectedAtom(t.atoms, t.datoms[x.oid])].disordered_flag

AltlocOf(t, x) ==
    IF x.kind = "A" THEN t.atoms[x.oid].altloc
    ELSE IF t.datoms[x.oid].shadowed THEN Blank
    ELSE t.atoms[SelectedAtom(t.atoms, t.datoms[x.oid])].altloc

\* atom.disordered_flag = False; atom.altloc = " ": attribute assignments on the
\* object at hand.
ClearDisorder(t, x) ==
    IF x.kind = "A"
    THEN [t EXCEPT !.atoms[x.oid].disordered_flag = 0, !.atoms[x.oid].altloc = Blank]
    ELSE [t EXCEPT !.datoms[x.oid].shadowed = TRUE]

\* Mutant: the altloc of an accepted disordered atom is blanked and its flag left set.
NotDisordered_accept_atom_keep_flag(t, x) ==
    IF FlagOf(t, x) = 0 THEN [ok |-> TRUE, t |-> t]
    ELSE IF AltlocOf(t, x) = "A"
         THEN [ok |-> TRUE,
               t |-> IF x.kind = "A"
                     THEN [t EXCEPT !.atoms[x.oid].altloc = Blank]
                     ELSE t]
         ELSE [ok |-> FALSE, t |-> t]

\* NotDisordered.accept_atom
NotDisordered_accept_atom(t, x) ==
    IF FlagOf(t, x) = 0 THEN [ok |-> TRUE, t |-> t]
    ELSE IF AltlocOf(t, x) = "A" THEN [ok |-> TRUE, t |-> ClearDisorder(t, x)]
         ELSE [ok |-> FALSE, t |-> t]

\* any(self.accept_atom(atom) for atom in residue): the entries of the residue in
\* order, up to the first accepted one; any_next continues after the answer for
\* entry i.
RECURSIVE AnyAccepted(_, _, _)
any_next(res, entries, i) ==
    IF res.ok THEN res ELSE AnyAccepted(res.t, entries, i + 1)

AnyAccepted(t, entries, i) ==
    IF i > Len(entries) THEN [ok |-> FALSE, t |-> t]
    ELSE any_next(NotDisordered_accept_atom(t, entries[i]), entries, i)

\* residue.disordered = False, when any(...) answered true.
mark_ordered(res, r) ==
    IF res.ok THEN [ok |-> TRUE, t |-> [res.t EXCEPT !.residues[r].disordered = 0]]
    ELSE res

\* Mutant: a disordered residue is accepted whatever its atoms are.
NotDisordered_accept_residue_always(t, r) ==
    [ok |-> TRUE, t |-> [t EXCEPT !.residues[r].disordered = 0]]

\* NotDisordered.accept_residue
NotDisordered_accept_residue(t, r) ==
    IF t.residues[r].disordered = 0 THEN [ok |-> TRUE, t |-> t]
    ELSE mark_ordered(AnyAccepted(t, t.residues[r].children, 1), r)

\* select.accept_model(model), ..., select.accept_atom(atom), by the class of select.
accept_model(select, t, m) == [ok |-> <<"M", m>> \notin select.rejected, t |-> t]

accept_chain(select, t, c) == [ok |-> <<"C", c>> \notin select.rejected, t |-> t]

accept_residue(select, t, r) ==
    IF select.kind = "NotDisordered" THEN NotDisordered_accept_residue(t, r)
    ELSE [ok |-> <<"R", r>> \notin select.rejected, t |-> t]

accept_atom(select, t, a) ==
    IF select.kind = "NotDisordered" THEN NotDisordered_accept_atom(t, ARef(a))
    ELSE [ok |-> <<"A", a>> \notin select.rejected, t |-> t]

\* ---- PDBIO._get_atom_line

Max(a, b) == IF a >= b THEN a ELSE b

\* Number of characters of an integer written in decimal.
RECURSIVE NumChars(_)
NumChars(n) ==
    IF n < 0 THEN 1 + NumChars(0 - n)
    ELSE IF n < 10 THEN 1 ELSE 1 + NumChars(n \div 10)

\* str.ljust and str.rjust on a name held as a tuple of characters.
RECURSIVE LJust(_, _)
LJust(s, n) == IF Len(s) >= n THEN s ELSE LJust(Append(s, Blank), n)

RECURSIVE RJust(_, _)
RJust(s, n) == IF Len(s) >= n THEN s ELSE RJust(<<Blank>> \o s, n)

\* The element symbols of Bio.Data.IUPACData.atom_weights that the runs meet.
KnownElements == {"H", "C", "N", "O", "S", "Fe"}

NoElement == ""

\* element.strip().upper() and str.capitalize() on the element strings of the runs.
UpperCase(e) ==
    CASE e = "c" -> "C" [] e = "n" -> "N" [] e = "Fe" -> "FE" [] e = "x" -> "X"
      [] OTHER -> e

Capitalize(e) == CASE e = "FE" -> "Fe" [] OTHER -> e

\* The hetero field of a residue id: blank, W, or H_ followed by the residue name.
HetField(res_id) == res_id[1]

\* Mutant: an occupancy that cannot be formatted is written as blanks as well.
occupancy_str_lenient(occupancy) ==
    IF occupancy \in {AbsentOccupancy, InvalidOccupancy}
    THEN [exc |-> "none", blank |-> TRUE, value |-> 0, width |-> 6]
    ELSE [exc |-> "none", blank |-> FALSE, value |-> occupancy,
          width |-> Max(NumChars(occupancy) + 3, 6)]

\* "%6.2f" % occupancy: the number with two decimals in six characters or more, six
\* blanks for None, and TypeError for anything else.
occupancy_str(occupancy) ==
    IF occupancy = AbsentOccupancy
    THEN [exc |-> "none", blank |-> TRUE, value |-> 0, width |-> 6]
    ELSE IF occupancy = InvalidOccupancy
    THEN [exc |-> "TypeError", blank |-> TRUE, value |-> 0, width |-> 6]
    ELSE [exc |-> "none", blank |-> FALSE, value |-> occupancy,
          width |-> Max(NumChars(occupancy) + 3, 6)]

\* The record of one atom, field by field, and its length in characters; raises
\* ValueError on an element that is no known symbol, TypeError on an occupancy that
\* is neither a number nor None, and AssertionError on a record that is not 81
\* characters long.
get_atom_line(atom, hetfield, segid, atom_number, resname, resseq, icode, chain_id) ==
    LET record_type == IF hetfield # BlankField THEN "HETATM" ELSE "ATOM  "
        element == IF atom.element # NoElement THEN UpperCase(atom.element)
                   ELSE "  "
        name == RJust(LJust(Strip(atom.fullname), 3), 4)
        length == 6 + Max(NumChars(atom_number), 5) + 1
                  + Len(name) + Max(Len(atom.altloc), 1)
                  + Max(Len(resname), 3) + Max(Len(chain_id), 2)
                  + Max(NumChars(resseq), 4) + Max(Len(icode), 1) + 3
                  + 8 + 8 + 8
                  + occupancy_str(atom.occupancy).width + 6
                  + Max(Len(segid), 7) + Max(Len(element), 5) + 2 + 1
        line == [record_type |-> record_type, atom_number |-> atom_number,
                 name |-> name, altloc |-> atom.altloc, resname |-> resname,
                 chain_id |-> chain_id, resseq |-> resseq, icode |-> icode,
                 occupancy |-> [blank |-> occupancy_str(atom.occupancy).blank,
                                value |-> occupancy_str(atom.occupancy).value],
                 segid |-> segid, element |-> element]
    IN IF atom.element # NoElement
          /\ Capitalize(UpperCase(atom.element)) \notin KnownElements
       THEN [exc |-> "ValueError", line |-> line]
       ELSE IF occupancy_str(atom.occupancy).exc # "none"
       THEN [exc |-> occupancy_str(atom.occupancy).exc, line |-> line]
       ELSE IF length # 81 THEN [exc |-> "AssertionError", line |-> line]
       ELSE [exc |-> "none", line |-> line]

\* ---- PDBIO.save

\* The records that are no atom records.
ModelLine(serial_num) == [record_type |-> "MODEL", serial_num |-> serial_num]
TerLine == [record_type |-> "TER"]
EndmdlLine == [record_type |-> "ENDMDL"]
EndLine == [record_type |-> "END"]

\* What a call of save has in hand: the objects the policy may change, the records
\* written, and its local variables. History: `src` names for each record written
\* the model, chain, residue and atom it was written for, `asked` lists the
\* predicates save consulted, in order.
SaveState ==
    [residues |-> residues, atoms |-> atoms, datoms |-> datoms,
     lines |-> <<>>, src |-> <<>>, asked |-> <<>>, exc |-> "none",
     atom_number |-> None, chain_residues_written |-> 0,
     model_residues_written |-> 0]

Write(sv, line, m, c, r, a) ==
    [sv EXCEPT !.lines = Append(@, line),
               !.src = Append(@, [model |-> m, chain |-> c, residue |-> r,
                                  atom |-> a])]

\* History: save consulted the predicate of `level` for object o, and got res.
Asked(res, level, o) ==
    [ok |-> res.ok,
     t |-> [res.t EXCEPT !.asked = Append(@, [level |-> level, o |-> o,
                                              ok |-> res.ok])]]

\* Mutant: in keep mode the count runs on from the first atom's serial number.
atom_number_of_running(sv, cx, a) ==
    IF cx.atom_numbering = "keep" /\ sv.atom_number = None
    THEN sv.atoms[a].serial_number
    ELSE sv.atom_number

\* The serial number the record of atom a gets: its own in keep mode, the running
\* count otherwise.
atom_number_of(sv, cx, a) ==
    IF cx.atom_numbering = "keep" THEN sv.atoms[a].serial_number ELSE sv.atom_number

\* chain_residues_written = 1; model_residues_written = 1; s = get_atom_line(...);
\* fp.write(s); atom_number += 1 -- s is the outcome of get_atom_line for number n.
write_atom(sv, cx, a, n, s) ==
    IF s.exc # "none"
    THEN [sv EXCEPT !.chain_residues_written = 1, !.model_residues_written = 1,
                    !.atom_number = n, !.exc = s.exc]
    ELSE [Write(sv, s.line, cx.model, cx.chain, cx.residue, a)
             EXCEPT !.chain_residues_written = 1, !.model_residues_written = 1,
                    !.atom_number = n + 1]

\* The body of the atom loop for atom a, res being the answer of accept_atom.
save_atom(res, cx, a) ==
    IF ~res.ok THEN res.t
    ELSE write_atom(res.t, cx, a, atom_number_of(res.t, cx, a),
             get_atom_line(res.t.atoms[a], cx.hetfield, cx.segid,
                 atom_number_of(res.t, cx, a), cx.resname, cx.resseq, cx.icode,
                 cx.chain_id))

\* for atom in residue.get_unpacked_list(): ...
RECURSIVE save_atoms(_, _, _, _)
save_atoms(sv, cx, atom_list, i) ==
    IF sv.exc # "none" \/ i > Len(atom_list) THEN sv
    ELSE save_atoms(
             save_atom(Asked(accept_atom(cx.select, sv, atom_list[i]), "A",
                           atom_list[i]),
                 cx, atom_list[i]),
             cx, atom_list, i + 1)

\* hetfield, resseq, icode = residue.id; resname = residue.resname;
\* segid = residue.segid
residue_context(cx, r, residue) ==
    [cx EXCEPT !.residue = r, !.hetfield = HetField(residue.id),
               !.resseq = residue.id[2], !.icode = residue.id[3],
               !.resname = residue.resname, !.segid = residue.segid]

\* Mutant: the atoms of a rejected residue are visited as well.
save_residue_no_skip(res, cx, r) ==
    save_atoms(res.t, residue_context(cx, r, res.t.residues[r]),
        UnpackedAtoms(res.t.datoms, res.t.residues[r]), 1)

\* The body of the residue loop for residue r, res being the answer of
\* accept_residue.
save_residue(res, cx, r) ==
    IF ~res.ok THEN res.t
    ELSE save_atoms(res.t, residue_context(cx, r, res.t.residues[r]),
             UnpackedAtoms(res.t.datoms, res.t.residues[r]), 1)

\* for residue in chain.get_unpacked_list(): ...
RECURSIVE save_residues(_, _, _, _)
save_residues(sv, cx, residue_list, i) ==
    IF sv.exc # "none" \/ i > Len(residue_list) THEN sv
    ELSE save_residues(
             save_residue(Asked(accept_residue(cx.select, sv, residue_list[i]), "R",
                              residue_list[i]),
                 cx, residue_list[i]),
             cx, residue_list, i + 1)

\* Mutant: TER is written after every accepted chain.
close_chain_always(sv, cx) == Write(sv, TerLine, cx.model, cx.chain, None, None)

\* if chain_residues_written: fp.write("TER\n")
close_chain(sv, cx) ==
    IF sv.chain_residues_written # 0
    THEN Write(sv, TerLine, cx.model, cx.chain, None, None)
    ELSE sv

\* Mutant: the count restarts at every chain in every renumbering mode.
open_chain_restart(sv, cx) ==
    [sv EXCEPT !.atom_number = IF cx.atom_numbering = "keep" THEN @ ELSE 1,
               !.chain_residues_written = 0]

\* if atom_numbering == "by_chain": atom_number = 1; chain_residues_written = 0
open_chain(sv, cx) ==
    [sv EXCEPT !.atom_number = IF cx.atom_numbering = "by_chain" THEN 1 ELSE @,
               !.chain_residues_written = 0]

\* The end of the chain loop's body, skipped when an exception is on its way out.
end_chain(sv, cx) == IF sv.exc # "none" THEN sv ELSE close_chain(sv, cx)

\* The body of the chain loop for chain c, res being the answer of accept_chain.
save_chain(res, cx, c) ==
    IF ~res.ok THEN res.t
    ELSE end_chain(
             save_residues(open_chain(res.t, cx), cx,
                 UnpackedResidues(dresidues, chains[c]), 1),
             cx)

\* for chain in model: ...
RECURSIVE save_chains(_, _, _, _)
save_chains(sv, cx, chain_list, i) ==
    IF sv.exc # "none" \/ i > Len(chain_list) THEN sv
    ELSE save_chains(
             save_chain(Asked(accept_chain(cx.select, sv, chain_list[i]), "C",
                            chain_list[i]),
                 [cx EXCEPT !.chain = chain_list[i],
                            !.chain_id = chains[chain_list[i]].id],
                 chain_list[i]),
             cx, chain_list, i + 1)

\* Mutant: ENDMDL is written whenever MODEL was.
close_model_always(sv, cx) ==
    IF cx.model_flag # 0
    THEN Write(sv, EndmdlLine, cx.model, None, None, None)
    ELSE sv

\* if model_flag and model_residues_written: fp.write("ENDMDL\n")
close_model(sv, cx) ==
    IF cx.model_flag # 0 /\ sv.model_residues_written # 0
    THEN Write(sv, EndmdlLine, cx.model, None, None, None)
    ELSE sv

\* if atom_numbering == "by_model": atom_number = 1; model_residues_written = 0;
\* if model_flag: fp.write("MODEL      %s\n" % model.serial_num)
open_model(sv, cx) ==
    LET sv1 == [sv EXCEPT
                   !.atom_number = IF cx.atom_numbering = "by_model" THEN 1 ELSE @,
                   !.model_residues_written = 0]
    IN IF cx.model_flag # 0
       THEN Write(sv1, ModelLine(models[cx.model].serial_num), cx.model, None, None,
                None)
       ELSE sv1

\* The end of the model loop's body, skipped when an exception is on its way out.
end_model(sv, cx) == IF sv.exc # "none" THEN sv ELSE close_model(sv, cx)

\* The body of the model loop for model m, res being the answer of accept_model.
save_model(res, cx, m) ==
    IF ~res.ok THEN res.t
    ELSE end_model(save_chains(open_model(res.t, cx), cx, models[m].children, 1), cx)

\* for model in self.structure: ...
RECURSIVE save_models(_, _, _, _)
save_models(sv, cx, model_list, i) ==
    IF sv.exc # "none" \/ i > Len(model_list) THEN sv
    ELSE save_models(
             save_model(Asked(accept_model(cx.select, sv, model_list[i]), "M",
                            model_list[i]),
                 [cx EXCEPT !.model = model_list[i]], model_list[i]),
             cx, model_list, i + 1)

\* model_flag: more than one model, or use_model_flag.
ModelFlag(s) ==
    IF Len(structures[s].children) > 1 \/ io.use_model_flag # 0 THEN 1 ELSE 0

SaveContext(select, atom_numbering) ==
    [select |-> select, atom_numbering |-> atom_numbering,
     model_flag |-> ModelFlag(io.structure),
     model |-> None, chain |-> None, chain_id |-> "", residue |-> None,
     hetfield |-> BlankField, resseq |-> 0, icode |-> Blank, resname |-> "",
     segid |-> Blank]

\* The file object save writes to: one it opens itself for a path, the caller's open
\* handle otherwise.
NewFile(file) ==
    [opened_by |-> IF file = "path" THEN "save" ELSE "caller", closed |-> FALSE,
     lines |-> <<>>]

\* if close_file: fp.close(), reached only when nothing was raised.
close_sink(fp, close_file, sv) ==
    [fp EXCEPT !.closed = (sv.exc = "none" /\ close_file # 0)]

\* PDBIO.set_structure, for a pdb_object that is a Structure (level "S").
set_structure(pdb_object) ==
    /\ io' = [io EXCEPT !.structure = pdb_object]
    /\ last' = [op |-> "set_structure", b |-> 0, exc |-> "none"]
    /\ UNCHANGED <<structures, models, chains, residues, dresidues, atoms, datoms, sb,
                   begun, nev, hist, files, saves, reader, dom>>

\* if write_end: fp.write("END\n"), reached only when nothing was raised.
written_lines(sv, write_end) ==
    IF sv.exc = "none" /\ write_end THEN Append(sv.lines, EndLine) ELSE sv.lines

\* What save leaves behind, sv being the state at the end of the model loop.
save_result(file, select, write_end, atom_numbering, sv) ==
    /\ residues' = sv.residues
    /\ atoms' = sv.atoms
    /\ datoms' = sv.datoms
    /\ files' = Append(files,
           close_sink([NewFile(file) EXCEPT !.lines = written_lines(sv, write_end)],
               IF file = "path" THEN 1 ELSE 0, sv))
    /\ saves' = Append(saves,
           [file |-> file, select |-> select, write_end |-> write_end,
            atom_numbering |-> atom_numbering,
            model_flag |-> ModelFlag(io.structure),
            fp |-> Len(files) + 1, lines |-> written_lines(sv, write_end),
            src |-> sv.src, asked |-> sv.asked, exc |-> sv.exc])
    /\ last' = [op |-> "save", b |-> 0, exc |-> sv.exc]

\* PDBIO.save
save(file, select, write_end, atom_numbering) ==
    /\ io.structure # None
    /\ save_result(file, select, write_end, atom_numbering,
           save_models(SaveState, SaveContext(select, atom_numbering),
               structures[io.structure].children, 1))
    /\ UNCHANGED <<structures, models, chains, dresidues, sb, begun, nev, hist, io,
                   reader, dom>>

\* ---- reading a written file back

\* A reader that has not been given a builder yet. No chain, segment or residue is
\* current: "" and <<>> are no ids.
NewReader ==
    [builder |-> None, pos |-> 1, model_open |-> FALSE, current_model_id |-> 0,
     current_chain_id |-> "", current_segid |-> "", current_residue_id |-> <<>>,
     current_resname |-> ""]

\* ------------------------------------------------------------------ runs

\* The events a run draws from.
StructureIds == {"s"}
ModelIds == {0, 1}
ChainIds == {"A", "B"}
SegIds == {Blank}
ResNames == {"SER", "CYS", "GLY"}
HetFields == {Blank, "H"}
ResSeqs == {1}
ICodes == {Blank}
FullNames == {<<Blank, "C", "A", Blank>>, <<"C", "A", Blank, Blank>>}
AltLocs == {Blank, "A"}
Occupancies == {1}
Serials == {1}
Elements == {"C"}

Domains ==
    [structure_ids |-> StructureIds, model_ids |-> ModelIds,
     chain_ids |-> ChainIds, segids |-> SegIds, resnames |-> ResNames,
     fields |-> HetFields, resseqs |-> ResSeqs, icodes |-> ICodes,
     fullnames |-> FullNames, altlocs |-> AltLocs,
     occupancies |-> Occupancies, serials |-> Serials, elements |-> Elements,
     builders |-> 1, max_events |-> MaxEvents,
     ordered |-> FALSE, serial_step |-> 0,
     use_model_flags |-> {0}, files |-> {"path"}, selects |-> {Select},
     custom |-> FALSE, write_ends |-> {TRUE}, numberings |-> {"by_chain"},
     max_saves |-> 0]

\* A parser numbers the models of a structure consecutively.
FreshModelId(b, model_id) ==
    /\ sb[b].structure # None
    /\ ~HasId(IdKeys(models, structures[sb[b].structure].children), model_id)

\* One event fed to a builder. The tree is built before it is handed to PDBIO.
Step(A) ==
    /\ nev < dom.max_events
    /\ io.structure = None
    /\ A
    /\ nev' = nev + 1
    /\ hist' = [raised |-> IF last'.exc = "none" THEN hist.raised ELSE hist.raised + 1,
                dropped |-> IF last'.op = "init_atom" /\ last'.residue = NoRef
                            THEN hist.dropped + 1 ELSE hist.dropped,
                zone |-> IF last'.op = "init_residue" THEN last'.exc # "none"
                         ELSE hist.zone]
    /\ dom' = dom
    /\ UNCHANGED serializer

\* In an ordered run the events come as a parser sends them: init_structure once,
\* at the start, and init_seg once.
begin_structure ==
    \E b \in Builders, structure_id \in dom.structure_ids :
        /\ dom.ordered => sb[b].structure = None
        /\ Step(init_structure(b, structure_id))

begin_model ==
    \E b \in Builders, model_id \in dom.model_ids :
        Step(FreshModelId(b, model_id) /\ init_model(b, model_id, model_id + 1))

begin_chain ==
    \E b \in Builders, chain_id \in dom.chain_ids : Step(init_chain(b, chain_id))

set_segment ==
    \E b \in Builders, segid \in dom.segids :
        /\ dom.ordered => sb[b].segid = NoSegid
        /\ Step(init_seg(b, segid))

begin_residue ==
    \E b \in Builders, resname \in dom.resnames, field \in dom.fields,
       resseq \in dom.resseqs, icode \in dom.icodes :
        Step(init_residue(b, resname, field, resseq, icode))

\* The serial numbers of a run grow by dom.serial_step from one atom to the next.
add_atom ==
    \E b \in Builders, fullname \in dom.fullnames, altloc \in dom.altlocs,
       occupancy \in dom.occupancies, serial \in dom.serials,
       element \in dom.elements :
        Step(init_atom(b, Strip(fullname), occupancy, altloc, fullname,
                 serial + dom.serial_step * Len(atoms), element))

\* The objects of the tree PDBIO holds, as <<level, object>> pairs.
TreeObjects ==
    LET ms == SeqToSet(structures[io.structure].children)
        cs == UNION {SeqToSet(models[m].children) : m \in ms}
        rs == UNION {SeqToSet(UnpackedResidues(dresidues, chains[c])) : c \in cs}
        as == UNION {SeqToSet(UnpackedAtoms(datoms, residues[r])) : r \in rs}
    IN {<<"M", m>> : m \in ms} \cup {<<"C", c>> : c \in cs}
       \cup {<<"R", r>> : r \in rs} \cup {<<"A", a>> : a \in as}

\* The policies a run passes to save: the two provided ones and, in a run with
\* custom policies, those rejecting one object of the tree.
Selects ==
    dom.selects \cup
    (IF dom.custom THEN {CustomSelect({x}) : x \in TreeObjects} ELSE {})

give_structure ==
    \E b \in Builders :
        /\ sb[b].structure # None
        /\ io.structure = None
        /\ set_structure(sb[b].structure)

\* A second call of save repeats the arguments of the first.
write_structure ==
    /\ Len(saves) < dom.max_saves
    /\ io.structure # None
    /\ \E file \in dom.files, select \in Selects, write_end \in dom.write_ends,
          atom_numbering \in dom.numberings :
           /\ saves # <<>> =>
                 /\ file = saves[1].file
                 /\ select = saves[1].select
                 /\ write_end = saves[1].write_end
                 /\ atom_numbering = saves[1].atom_numbering
           /\ save(file, select, write_end, atom_numbering)

InitWith(d) ==
    /\ structures = <<>>
    /\ models = <<>>
    /\ chains = <<>>
    /\ residues = <<>>
    /\ dresidues = <<>>
    /\ atoms = <<>>
    /\ datoms = <<>>
    /\ sb = [b \in 1..d.builders |-> NewBuilder]
    /\ begun = {}
    /\ last = NoEvent
    /\ nev = 0
    /\ hist = [raised |-> 0, dropped |-> 0, zone |-> FALSE]
    /\ io \in {NewPDBIO(f) : f \in d.use_model_flags}
    /\ files = <<>>
    /\ saves = <<>>
    /\ reader = NewReader
    /\ dom = d

Init == InitWith(Domains)

Next ==
    \/ begin_structure
    \/ begin_model
    \/ begin_chain
    \/ set_segment
    \/ begin_residue
    \/ add_atom

Spec == Init /\ [][Next]_vars

\* ------------------------------------------------------------------ two runs

\* A second builder is fed the stream of the first one without the init_residue
\* calls that raised and without the init_atom calls that follow such a call up to
\* the next init_residue: after each event of builder 1, builder 2 is fed the same
\* event, or nothing when the event is a removed one.
Removed(e) ==
    \/ e.op = "init_residue" /\ e.exc = "PDBConstructionException"
    \/ e.op = "init_atom" /\ hist.zone

feed_first ==
    /\ last.b # 1
    /\ \/ \E structure_id \in dom.structure_ids : Step(init_structure(1, structure_id))
       \/ \E model_id \in dom.model_ids :
              Step(FreshModelId(1, model_id) /\ init_model(1, model_id, model_id + 1))
       \/ \E chain_id \in dom.chain_ids : Step(init_chain(1, chain_id))
       \/ \E segid \in dom.segids : Step(init_seg(1, segid))
       \/ \E resname \in dom.resnames, field \in dom.fields,
             resseq \in dom.resseqs, icode \in dom.icodes :
              Step(init_residue(1, resname, field, resseq, icode))
       \/ \E fullname \in dom.fullnames, altloc \in dom.altlocs,
             occupancy \in dom.occupancies, serial_number \in dom.serials,
             element \in dom.elements :
              Step(init_atom(1, Strip(fullname), occupancy, altloc, fullname,
                       serial_number, element))

replay_second ==
    /\ last.b = 1
    /\ ~Removed(last)
    /\ \/ last.op = "init_structure" /\ init_structure(2, last.structure_id)
       \/ last.op = "init_model" /\ init_model(2, last.model_id, last.serial_num)
       \/ last.op = "init_chain" /\ init_chain(2, last.chain_id)
       \/ last.op = "init_seg" /\ init_seg(2, last.segid)
       \/ last.op = "init_residue"
              /\ init_residue(2, last.resname, last.field, last.resseq, last.icode)
       \/ last.op = "init_atom"
              /\ init_atom(2, last.name, last.occupancy, last.altloc, last.fullname,
                     last.serial_number, last.element)
    /\ UNCHANGED <<nev, hist, dom>>
    /\ UNCHANGED serializer

skip_second ==
    /\ last.b = 1
    /\ Removed(last)
    /\ last' = [op |-> "removed", b |-> 2, exc |-> "none"]
    /\ UNCHANGED <<structures, models, chains, residues, dresidues, atoms, datoms, sb,
                   begun, nev, hist, dom>>
    /\ UNCHANGED serializer

DropDomains ==
    [Domains EXCEPT !.builders = 2, !.model_ids = {0}, !.chain_ids = {"A"},
                    !.resnames = {"SER", "CYS"}, !.fields = {Blank},
                    !.resseqs = {1, 2},
                    !.fullnames = {<<Blank, "C", "A", Blank>>},
                    !.max_events = MaxEvents + 1]

InitDrop == InitWith(DropDomains)

NextDrop ==
    \/ feed_first
    \/ replay_second
    \/ skip_second

SpecDrop == InitDrop /\ [][NextDrop]_vars

\* ------------------------------------------------------------------ hetero runs

\* Runs with water and hetero residues next to ordinary ones, in one chain.
HetDomains ==
    [Domains EXCEPT !.model_ids = {0}, !.chain_ids = {"A"},
                    !.resnames = {"SER", "CYS"}, !.fields = {Blank, "H", "W"},
                    !.fullnames = {<<Blank, "C", "A", Blank>>}]

InitHet == InitWith(HetDomains)

SpecHet == InitHet /\ [][Next]_vars

\* ------------------------------------------------------------------ serializer runs

NextSave ==
    \/ begin_structure
    \/ begin_model
    \/ begin_chain
    \/ set_segment
    \/ begin_residue
    \/ add_atom
    \/ give_structure
    \/ write_structure

\* Runs that build a tree of up to two models and two chains, with atoms of altloc B
\* that the collapsing policy rejects, and write it once.
SaveDomains ==
    [Domains EXCEPT !.resnames = {"SER"}, !.fields = {Blank},
                    !.fullnames = {<<Blank, "C", "A", Blank>>},
                    !.altlocs = {Blank, "B"}, !.serials = {11}, !.serial_step = 2,
                    !.ordered = TRUE, !.use_model_flags = {0, 1},
                    !.selects = {Select, NotDisordered}, !.custom = TRUE,
                    !.numberings = {"keep", "by_model", "by_chain"},
                    !.max_saves = 1, !.max_events = MaxEvents + 1]

InitSave == InitWith(SaveDomains)

SpecSave == InitSave /\ [][NextSave]_vars

\* Runs that build one chain whose residues hold atoms under two names with altlocs
\* blank, A and B and two occupancies, and write it up to twice with one of the
\* provided policies.
CollapseDomains ==
    [Domains EXCEPT !.model_ids = {0}, !.chain_ids = {"A"}, !.resnames = {"SER"},
                    !.fields = {Blank}, !.resseqs = {1, 2},
                    !.altlocs = {Blank, "A", "B"}, !.occupancies = {1, 2},
                    !.serials = {11}, !.serial_step = 2, !.ordered = TRUE,
                    !.selects = {Select, NotDisordered},
                    !.numberings = {"keep", "by_model", "by_chain"},
                    !.max_saves = 2, !.max_events = MaxEvents - 1]

InitCollapse == InitWith(CollapseDomains)

SpecCollapse == InitCollapse /\ [][NextSave]_vars

\* Runs that build one chain with atoms of a known and of an unknown element, with
\* an occupancy that is a number, None or neither, in residues whose sequence number
\* fits the record or is too wide for it, and write it to a path or to an open
\* handle. No atom of these runs has an altloc: DisorderedAtom compares
\* occupancies, which None does not allow.
WideResSeq == 10000

SinkDomains ==
    [Domains EXCEPT !.model_ids = {0}, !.chain_ids = {"A"}, !.resnames = {"SER"},
                    !.fields = {Blank}, !.resseqs = {1, WideResSeq},
                    !.altlocs = {Blank}, !.elements = {"C", "X"},
                    !.occupancies = {1, AbsentOccupancy, InvalidOccupancy},
                    !.use_model_flags = {0, 1},
                    !.serials = {11}, !.serial_step = 2, !.ordered = TRUE,
                    !.files = {"path", "handle"}, !.selects = {Select},
                    !.numberings = {"keep"}, !.max_saves = 1]

InitSink == InitWith(SinkDomains)

SpecSink == InitSink /\ [][NextSave]_vars

\* Runs of two builders, each fed its own stream, in every interleaving.
TwoDomains ==
    [Domains EXCEPT !.builders = 2, !.model_ids = {0}, !.chain_ids = {"A"},
                    !.resnames = {"SER", "CYS"}, !.fields = {Blank},
                    !.fullnames = {<<Blank, "C", "A", Blank>>}, !.ordered = TRUE,
                    !.max_events = MaxEvents + 3]

InitTwo == InitWith(TwoDomains)

SpecTwo == InitTwo /\ [][Next]_vars

\* Runs that build up to two chains whose residues come under two names and whose
\* atoms come under two names with a blank altloc or altloc A, so that point
\* mutations and atoms wrapped after the fact occur, and write the tree once with
\* the default policy. The serial numbers grow with every atom event.
MixDomains ==
    [Domains EXCEPT !.model_ids = {0}, !.resnames = {"SER", "CYS"},
                    !.fields = {Blank},
                    !.fullnames = {<<Blank, "C", "A", Blank>>,
                                   <<Blank, "C", "B", Blank>>},
                    !.serials = {11}, !.serial_step = 1, !.ordered = TRUE,
                    !.numberings = {"keep"}, !.max_saves = 1,
                    !.max_events = MaxEvents + 1]

SpecMix == InitWith(MixDomains) /\ [][NextSave]_vars

\* ------------------------------------------------------------------ round trips

\* A reader is set on the first file written, once it is complete, with a builder
\* of its own.
open_reader ==
    /\ reader.builder = None
    /\ saves # <<>>
    /\ saves[1].exc = "none"
    /\ sb' = Append(sb, NewBuilder)
    /\ reader' = [reader EXCEPT !.builder = Len(sb) + 1]
    /\ last' = [op |-> "open_reader", b |-> Len(sb) + 1, exc |-> "none"]
    /\ UNCHANGED <<structures, models, chains, residues, dresidues, atoms, datoms,
                   begun, nev, hist, io, files, saves, dom>>

\* One step of the reader: the next builder call the record at hand asks for. The
\* structure is begun first, under the id of the structure written. A MODEL record
\* begins a model, numbered from 0 in the order met; an atom record met outside a
\* model begins one as well. An atom record sets the segment, begins the chain and
\* the residue when its fields differ from the current ones, and then adds the
\* atom: the name is the name field without its padding, the full name the field
\* as it stands, the hetero field H for a HETATM record (W for water) and blank
\* otherwise, a blank occupancy field is None. ENDMDL closes the model, TER is
\* passed over, END ends the reading.
read_record ==
    LET b == reader.builder
        lines == files[saves[1].fp].lines
        line == lines[reader.pos]
        field == IF line.record_type # "HETATM" THEN Blank
                 ELSE IF line.resname \in {"HOH", "WAT"} THEN "W" ELSE "H"
        passed == /\ last' = [op |-> "read_record", b |-> b, exc |-> "none"]
                  /\ UNCHANGED <<structures, models, chains, residues, dresidues,
                                 atoms, datoms, sb, begun>>
    IN /\ b # None
       /\ \/ /\ sb[b].structure = None
             /\ init_structure(b, structures[io.structure].id)
             /\ reader' = reader
          \/ /\ sb[b].structure # None
             /\ reader.pos <= Len(lines)
             /\ IF line.record_type = "MODEL"
                THEN /\ init_model(b, reader.current_model_id, line.serial_num)
                     /\ reader' = [reader EXCEPT !.model_open = TRUE,
                                      !.current_model_id = @ + 1,
                                      !.current_chain_id = "",
                                      !.current_residue_id = <<>>,
                                      !.pos = @ + 1]
                ELSE IF line.record_type = "ENDMDL"
                THEN /\ passed
                     /\ reader' = [reader EXCEPT !.model_open = FALSE,
                                      !.current_chain_id = "",
                                      !.current_residue_id = <<>>,
                                      !.pos = @ + 1]
                ELSE IF line.record_type = "TER"
                THEN /\ passed
                     /\ reader' = [reader EXCEPT !.pos = @ + 1]
                ELSE IF line.record_type = "END"
                THEN /\ passed
                     /\ reader' = [reader EXCEPT !.pos = Len(lines) + 1]
                ELSE IF ~reader.model_open
                THEN /\ init_model(b, reader.current_model_id, None)
                     /\ reader' = [reader EXCEPT !.model_open = TRUE,
                                      !.current_model_id = @ + 1]
                ELSE IF reader.current_segid # line.segid
                THEN /\ init_seg(b, line.segid)
                     /\ reader' = [reader EXCEPT !.current_segid = line.segid]
                ELSE IF reader.current_chain_id # line.chain_id
                THEN /\ init_chain(b, line.chain_id)
                     /\ reader' = [reader EXCEPT !.current_chain_id = line.chain_id,
                                      !.current_residue_id = <<>>]
                ELSE IF \/ reader.current_residue_id # <<field, line.resseq, line.icode>>
                        \/ reader.current_resname # line.resname
                THEN /\ init_residue(b, line.resname, field, line.resseq, line.icode)
                     /\ reader' = [reader EXCEPT
                            !.current_residue_id = <<field, line.resseq, line.icode>>,
                            !.current_resname = line.resname]
                ELSE /\ init_atom(b, Strip(line.name),
                            IF line.occupancy.blank THEN AbsentOccupancy
                            ELSE line.occupancy.value,
                            line.altloc, line.name, line.atom_number,
                            IF line.element = "  " THEN NoElement ELSE line.element)
                     /\ reader' = [reader EXCEPT !.pos = @ + 1]
       /\ UNCHANGED <<nev, hist, io, files, saves, dom>>

\* Runs that build a tree without disorder, whose atoms come under two full names
\* of one name, write it once with the default policy and read the file back with
\* a second builder.
RoundDomains ==
    [Domains EXCEPT !.model_ids = {0}, !.resnames = {"SER"}, !.fields = {Blank},
                    !.altlocs = {Blank}, !.ordered = TRUE, !.numberings = {"keep"},
                    !.max_saves = 1]

NextRound ==
    \/ NextSave
    \/ open_reader
    \/ read_record

SpecRound == InitWith(RoundDomains) /\ [][NextRound]_vars

\* ------------------------------------------------------------------ properties

\* Lookup in the chains and residues of the current state.
KeyOfResidue(x) == ResidueKey(residues, dresidues, x)
KeyOfAtom(x) == AtomKey(atoms, datoms, x)

ChainHolds(c, res_id) == HasId(ResidueKeys(residues, dresidues, chains[c].children), res_id)
ChainEntry(c, res_id) == GetChild(ResidueKeys(residues, dresidues, chains[c].children),
        chains[c].children, res_id)

\* The set of atom objects held by Residue r, variants of its DisorderedAtoms included.
AtomsOf(r) ==
    UNION {IF x.kind = "A" THEN {x.oid}
           ELSE {datoms[x.oid].children[j] : j \in 1..Len(datoms[x.oid].children)} :
           x \in {residues[r].children[i] : i \in 1..Len(residues[r].children)}}

HasBlankAltloc(r) == \E a \in AtomsOf(r) : atoms[a].altloc = Blank

HeapUnchanged == UNCHANGED heap

\* e is an init_residue call with a blank hetero field on a key chain e.chain holds.
DuplicateCall(e) ==
    /\ e.op = "init_residue"
    /\ e.res_id[1] = BlankField
    /\ ChainHolds(e.chain, e.res_id)

\* ... whose entry is a plain Residue of another name
MutationCall(e) ==
    /\ DuplicateCall(e)
    /\ ChainEntry(e.chain, e.res_id).kind = "R"
    /\ residues[ChainEntry(e.chain, e.res_id).oid].resname # e.resname

\* ... whose entry is a plain Residue of the same name
RelistingCall(e) ==
    /\ DuplicateCall(e)
    /\ ChainEntry(e.chain, e.res_id).kind = "R"
    /\ residues[ChainEntry(e.chain, e.res_id).oid].resname = e.resname

\* ... whose entry is a DisorderedResidue with a variant of that name
VariantCall(e) ==
    /\ DuplicateCall(e)
    /\ ChainEntry(e.chain, e.res_id).kind = "DR"
    /\ \E i \in 1..Len(dresidues[ChainEntry(e.chain, e.res_id).oid].children) :
          residues[dresidues[ChainEntry(e.chain, e.res_id).oid].children[i]].resname
              = e.resname

\* C1: init_residue with a blank hetero field on a key held by a plain Residue of
\* another name that has an atom with a blank altloc raises PDBConstructionException,
\* sets self.residue to None and changes no object: the chain still holds the earlier
\* residue with its atoms, and neither a DisorderedResidue nor a Residue was created.
C1_BlankAltlocConflictRejected ==
    [][(MutationCall(last') /\ HasBlankAltloc(ChainEntry(last'.chain, last'.res_id).oid))
        => /\ last'.exc = "PDBConstructionException"
           /\ sb'[last'.b].residue = NoRef
           /\ HeapUnchanged]_vars

C1_Witness ==
    /\ MutationCall(last)
    /\ HasBlankAltloc(ChainEntry(last.chain, last.res_id).oid)
    /\ last.exc = "PDBConstructionException"
    /\ sb[last.b].residue = NoRef

\* The DisorderedResidue objects some chain holds.
DisorderedInTree ==
    {x.oid : x \in {y \in UNION {{chains[c].children[i] : i \in 1..Len(chains[c].children)} :
                        c \in 1..Len(chains)} : y.kind = "DR"}}

\* C2: in every DisorderedResidue of the tree, every variant but the last added one
\* holds only atoms with a non-blank altloc.
C2_DisorderInvariant ==
    \A d \in DisorderedInTree :
        \A i \in 1..(Len(dresidues[d].children) - 1) :
            ~HasBlankAltloc(dresidues[d].children[i])

\* C3: init_residue with a blank hetero field on a key held by a DisorderedResidue
\* that has a variant of that name creates no Residue and adds nothing to the chain;
\* the chain entry is the same DisorderedResidue with the same variants, it is
\* self.residue and the named variant is its selected one.
C3_VariantReused ==
    [][VariantCall(last')
        => /\ residues' = residues
           /\ chains' = chains
           /\ dresidues'[ChainEntry(last'.chain, last'.res_id).oid].children
                = dresidues[ChainEntry(last'.chain, last'.res_id).oid].children
           /\ sb'[last'.b].residue = ChainEntry(last'.chain, last'.res_id)
           /\ dresidues'[ChainEntry(last'.chain, last'.res_id).oid].selected
                = last'.resname]_vars

\* The keys of a chain's children, in order, read in the next state.
KeysAfter(c) ==
    [i \in 1..Len(chains'[c].children) |->
        ResidueKey(residues', dresidues', chains'[c].children[i])]

KeysBefore(c) ==
    [i \in 1..Len(chains[c].children) |-> KeyOfResidue(chains[c].children[i])]

\* C4: init_residue with a blank hetero field on a key held by a plain Residue of
\* another name whose atoms all have a non-blank altloc takes that residue out of the
\* chain and puts a new DisorderedResidue at the same key; its variants are the
\* earlier residue, added first, and a new Residue of the given name, added last; the
\* wrapper is self.residue and the chain has the same keys as before.
C4_PointMutationWrapped ==
    [][(MutationCall(last') /\ ~HasBlankAltloc(ChainEntry(last'.chain, last'.res_id).oid))
        => LET c == last'.chain
               dup == ChainEntry(c, last'.res_id)
               d == Len(dresidues) + 1
               o == Len(residues) + 1
           IN /\ last'.exc = "none"
              /\ Len(dresidues') = d
              /\ Len(residues') = o
              /\ dresidues'[d].id = last'.res_id
              /\ dresidues'[d].children = <<dup.oid, o>>
              /\ residues'[o].resname = last'.resname
              /\ residues'[o].id = last'.res_id
              /\ residues'[dup.oid] = residues[dup.oid]
              /\ dup \notin SeqToSet(chains'[c].children)
              /\ DRRef(d) \in SeqToSet(chains'[c].children)
              /\ Len(chains'[c].children) = Len(chains[c].children)
              /\ SeqToSet(KeysAfter(c)) = SeqToSet(KeysBefore(c))
              /\ sb'[last'.b].residue = DRRef(d)]_vars

C4_Witness ==
    /\ last.op = "init_residue"
    /\ last.exc = "none"
    /\ sb[last.b].residue.kind = "DR"
    /\ Len(dresidues[sb[last.b].residue.oid].children) = 2
    /\ residues[dresidues[sb[last.b].residue.oid].children[2]].resname = last.resname
    /\ residues[dresidues[sb[last.b].residue.oid].children[2]].children = <<>>
    /\ residues[dresidues[sb[last.b].residue.oid].children[1]].children # <<>>
    /\ ChainHolds(last.chain, last.res_id)
    /\ ChainEntry(last.chain, last.res_id) = sb[last.b].residue

\* e is an init_atom call that was not dropped.
AtomCall(e) == e.op = "init_atom" /\ e.residue # NoRef

\* C5: init_residue with a blank hetero field on a key held by a plain Residue of the
\* same name creates nothing and changes no object; that residue becomes
\* self.residue, and an atom added while it is current is stored in it.
C5_RelistedResidueReused ==
    [][/\ RelistingCall(last')
          => /\ HeapUnchanged
             /\ last'.exc = "none"
             /\ sb'[last'.b].residue = ChainEntry(last'.chain, last'.res_id)
       /\ (AtomCall(last') /\ last'.residue.kind = "R")
          => /\ Len(atoms') = Len(atoms) + 1
             /\ \E i \in 1..Len(residues'[last'.residue.oid].children) :
                   LET x == residues'[last'.residue.oid].children[i]
                   IN IF x.kind = "A" THEN x.oid = Len(atoms')
                      ELSE Len(atoms') \in SeqToSet(datoms'[x.oid].children)
             /\ \A r \in 1..Len(residues) :
                   r # last'.residue.oid => residues'[r] = residues[r]]_vars

\* The residue made current by the call already holds atoms: it was not created by it.
C5_Witness ==
    /\ RelistingCall(last)
    /\ last.exc = "none"
    /\ sb[last.b].residue = ChainEntry(last.chain, last.res_id)
    /\ residues[sb[last.b].residue.oid].children # <<>>

\* The tree below an object, as a value free of object identities.
AtomEntryValue(x) ==
    IF x.kind = "A"
    THEN [kind |-> "A", atom |-> atoms[x.oid]]
    ELSE [kind |-> "DA", id |-> datoms[x.oid].id,
          selected |-> datoms[x.oid].selected,
          variants |-> [j \in 1..Len(datoms[x.oid].children) |->
                           atoms[datoms[x.oid].children[j]]]]

ResidueValue(r) ==
    [id |-> residues[r].id, resname |-> residues[r].resname,
     segid |-> residues[r].segid, disordered |-> residues[r].disordered,
     atoms |-> [i \in 1..Len(residues[r].children) |->
                   AtomEntryValue(residues[r].children[i])]]

ResidueEntryValue(x) ==
    IF x.kind = "R"
    THEN [kind |-> "R", residue |-> ResidueValue(x.oid)]
    ELSE [kind |-> "DR", id |-> dresidues[x.oid].id,
          disordered |-> dresidues[x.oid].disordered,
          selected |-> dresidues[x.oid].selected,
          variants |-> [j \in 1..Len(dresidues[x.oid].children) |->
                           ResidueValue(dresidues[x.oid].children[j])]]

ChainValue(c) ==
    [id |-> chains[c].id,
     residues |-> [i \in 1..Len(chains[c].children) |->
                      ResidueEntryValue(chains[c].children[i])]]

ModelValue(m) ==
    [id |-> models[m].id, serial_num |-> models[m].serial_num,
     chains |-> [i \in 1..Len(models[m].children) |-> ChainValue(models[m].children[i])]]

StructureValue(s) ==
    [id |-> structures[s].id,
     models |-> [i \in 1..Len(structures[s].children) |->
                    ModelValue(structures[s].children[i])]]

\* Two cursors both unset, or both set on equal trees.
CursorValue(kind, x) ==
    IF x = None THEN None
    ELSE IF kind = "structure" THEN StructureValue(x)
    ELSE IF kind = "model" THEN ModelValue(x)
    ELSE ChainValue(x)

\* Builder 2 has caught up with builder 1 and both hold the same structure, model
\* and chain.
TreesAgree ==
    last.b # 1 =>
        /\ CursorValue("structure", sb[1].structure) = CursorValue("structure", sb[2].structure)
        /\ CursorValue("model", sb[1].model) = CursorValue("model", sb[2].model)
        /\ CursorValue("chain", sb[1].chain) = CursorValue("chain", sb[2].chain)
        /\ sb[1].segid = sb[2].segid

\* C6: after a PDBConstructionException the builder goes on: an init_atom fed while
\* self.residue is None changes no object and leaves self.residue None, self.residue
\* leaves None only by an init_residue, and the builder holds the same tree as a
\* builder fed the stream without the init_residue that raised and without the
\* init_atom events dropped after it.
C6_UsableAfterViolation ==
    /\ []TreesAgree
    /\ [][/\ (last'.op = "init_atom" /\ last'.residue = NoRef)
             => HeapUnchanged /\ sb'[last'.b].residue = NoRef
          /\ \A b \in Builders :
                (sb[b].residue = NoRef /\ sb'[b].residue # NoRef)
                => (last'.op = "init_residue" /\ last'.b = b)]_vars

\* An exception was raised, an atom was dropped after it, and the next residue was
\* begun in both builders.
C6_Witness ==
    /\ hist.raised >= 1
    /\ last.b = 2
    /\ last.op = "init_residue"
    /\ last.exc = "none"
    /\ sb[1].residue # NoRef
    /\ sb[2].residue.kind = "R"
    /\ residues[sb[2].residue.oid].children = <<>>
    /\ hist.dropped >= 1

\* The chain ids of a model's chains, in order.
ChainIdsOf(m) == [i \in 1..Len(models[m].children) |-> chains[models[m].children[i]].id]

\* Every model holds one chain for each chain id init_chain was called with on it.
OneChainPerId ==
    \A m \in 1..Len(models) :
        /\ \A i, j \in 1..Len(models[m].children) :
              ChainIdsOf(m)[i] = ChainIdsOf(m)[j] => i = j
        /\ SeqToSet(ChainIdsOf(m)) = {p[2] : p \in {q \in begun : q[1] = m}}

\* C7: init_chain with an id the current model already has makes that chain current,
\* creates no chain, changes no object and raises nothing; every model holds exactly
\* one chain per chain id begun in it; and a residue begun under a key new to the
\* current chain is appended after the residues the chain already has.
C7_DiscontinuousChainReopened ==
    /\ []OneChainPerId
    /\ [][/\ (last'.op = "init_chain"
              /\ last'.chain_id \in SeqToSet(ChainIdsOf(last'.model)))
             => /\ HeapUnchanged
                /\ last'.exc = "none"
                /\ sb'[last'.b].chain \in SeqToSet(models[last'.model].children)
                /\ chains[sb'[last'.b].chain].id = last'.chain_id
          /\ (last'.op = "init_residue"
              /\ ~ChainHolds(last'.chain, last'.res_id))
             => /\ chains'[last'.chain].children
                     = Append(chains[last'.chain].children, RRef(Len(residues) + 1))
                /\ \A c \in 1..Len(chains) :
                      c # last'.chain => chains'[c] = chains[c]]_vars

\* The residue just created is the last one of a chain that is not the last chain of
\* its model and already had a residue: the chain was re-opened.
C7_Witness ==
    /\ last.op = "init_residue"
    /\ sb[last.b].residue = RRef(Len(residues))
    /\ Len(chains[last.chain].children) >= 2
    /\ chains[last.chain].children[Len(chains[last.chain].children)]
         = RRef(Len(residues))
    /\ \E m \in 1..Len(models) :
          /\ Len(models[m].children) = 2
          /\ models[m].children[1] = last.chain

\* The name the atom created by the step carries.
CreatedName == atoms'[Len(atoms) + 1].name

\* The Residue the step's atom goes to.
Receiver(e) == Target(residues, dresidues, e.residue)

ReceiverHolds(e, n) == HasId(AtomKeys(atoms, datoms, residues[Receiver(e)].children), n)
ReceiverEntry(e, n) == GetChild(AtomKeys(atoms, datoms, residues[Receiver(e)].children),
        residues[Receiver(e)].children, n)

\* The entries of Residue r under key n, read in the next state.
EntriesAfter(r, n) ==
    {i \in 1..Len(residues'[r].children) :
        AtomKey(atoms', datoms', residues'[r].children[i]) = n}

\* C8: init_atom with a non-blank altloc and no entry at the atom name puts a new
\* DisorderedAtom at that name whose only variant is the new atom, and sets the
\* disorder flag of the Residue that receives the atom, also when self.residue is a
\* DisorderedResidue.
C8_NewDisorderedAtomFlagsResidue ==
    [][(AtomCall(last') /\ last'.altloc # Blank /\ ~ReceiverHolds(last', last'.name))
        => LET r == Receiver(last')
               a == Len(atoms) + 1
               d == Len(datoms) + 1
           IN /\ Len(atoms') = a
              /\ Len(datoms') = d
              /\ datoms'[d].id = last'.name
              /\ datoms'[d].children = <<a>>
              /\ residues'[r].children = Append(residues[r].children, DARef(d))
              /\ residues'[r].disordered = 1]_vars

\* The disorder flag of the object a residue cursor holds, read in the next state.
DisorderedAfter(ref) ==
    IF ref.kind = "R" THEN residues'[ref.oid].disordered
    ELSE dresidues'[ref.oid].disordered

C10_AtomRenamed ==
    [][(AtomCall(last') /\ ReceiverHolds(last', last'.name)
        /\ FullnameOf(atoms, datoms, ReceiverEntry(last', last'.name)) # last'.fullname)
        => LET r == Receiver(last')
               first == ReceiverEntry(last', last'.name)
               a == Len(atoms) + 1
           IN /\ Len(atoms') = a
              /\ atoms'[a].name = last'.fullname
              /\ last'.fullname # last'.name
              /\ \E i \in EntriesAfter(r, last'.name) :
                    residues'[r].children[i] = first
              /\ Cardinality(EntriesAfter(r, last'.name)) = 1
              /\ IF first.kind = "A"
                 THEN atoms'[first.oid] = atoms[first.oid]
                 ELSE /\ datoms'[first.oid] = datoms[first.oid]
                      /\ \A v \in SeqToSet(datoms[first.oid].children) :
                            atoms'[v] = atoms[v]
              /\ Cardinality(EntriesAfter(r, last'.fullname)) = 1
              /\ \E i \in EntriesAfter(r, last'.fullname) :
                    LET x == residues'[r].children[i]
                    IN IF x.kind = "A" THEN x.oid = a
                       ELSE a \in SeqToSet(datoms'[x.oid].children)]_vars

\* The residue holds the atom just fed under its full name and an earlier atom with
\* another full name under the stripped name.
C10_Witness ==
    /\ last.op = "init_atom"
    /\ last.residue # NoRef
    /\ atoms[Len(atoms)].name = last.fullname
    /\ last.name # last.fullname
    /\ ReceiverHolds(last, last.name)
    /\ ReceiverHolds(last, last.fullname)
    /\ FullnameOf(atoms, datoms, ReceiverEntry(last, last.name)) # last.fullname

\* e is an init_residue call with a non-blank hetero field.
HeteroCall(e) == e.op = "init_residue" /\ e.field # Blank

IsAtomLine(l) == l.record_type \in {"ATOM  ", "HETATM"}

AtomLinesOfChain(s, c) ==
    {i \in 1..Len(s.src) : IsAtomLine(s.lines[i]) /\ s.src[i].chain = c}

TerLinesOfChain(s, c) ==
    {i \in 1..Len(s.src) : s.lines[i].record_type = "TER" /\ s.src[i].chain = c}

AtomLinesOfModel(s, m) ==
    {i \in 1..Len(s.src) : IsAtomLine(s.lines[i]) /\ s.src[i].model = m}

LinesOfModel(s, m, record_type) ==
    {i \in 1..Len(s.src) : s.lines[i].record_type = record_type /\ s.src[i].model = m}

SetMax(S) == CHOOSE x \in S : \A y \in S : y <= x

SetMin(S) == CHOOSE x \in S : \A y \in S : x <= y

\* save consulted the predicate of `level` for object o; it accepted o.
WasAsked(s, level, o) ==
    \E i \in 1..Len(s.asked) : s.asked[i].level = level /\ s.asked[i].o = o

Accepted(s, level, o) ==
    \E i \in 1..Len(s.asked) :
        s.asked[i].level = level /\ s.asked[i].o = o /\ s.asked[i].ok

\* C12: in the output of a save that returned, every chain with at least one written
\* atom record has exactly one TER record, right after its last atom record, and a
\* chain that was rejected or has no written atom record has no TER record.
C12_TerAfterWrittenChain ==
    \A k \in 1..Len(saves) :
        saves[k].exc = "none" =>
            \A c \in 1..Len(chains) :
                /\ IF AtomLinesOfChain(saves[k], c) = {}
                   THEN TerLinesOfChain(saves[k], c) = {}
                   ELSE TerLinesOfChain(saves[k], c)
                            = {SetMax(AtomLinesOfChain(saves[k], c)) + 1}
                /\ ~Accepted(saves[k], "C", c) => TerLinesOfChain(saves[k], c) = {}

\* A save wrote atoms and a TER for one chain and nothing for another accepted chain
\* that holds a residue.
C12_Witness ==
    \E k \in 1..Len(saves), c1, c2 \in 1..Len(chains) :
        /\ saves[k].exc = "none"
        /\ AtomLinesOfChain(saves[k], c1) # {}
        /\ TerLinesOfChain(saves[k], c1) # {}
        /\ Accepted(saves[k], "C", c2)
        /\ chains[c2].children # <<>>
        /\ AtomLinesOfChain(saves[k], c2) = {}
        /\ TerLinesOfChain(saves[k], c2) = {}

\* save writes MODEL and ENDMDL records: the structure has more than one model or
\* use_model_flag is set.
MultiModelOutput ==
    Len(structures[io.structure].children) > 1 \/ io.use_model_flag # 0

RecordsOfModel(s, m) == {i \in 1..Len(s.src) : s.src[i].model = m}

\* C13: with more than one model or the model flag set, a save that returned wrote
\* for every accepted model one MODEL record with the model's serial number before
\* all other records of the model, and one ENDMDL record after them if and only if
\* an atom record was written for the model; a rejected model has no record; with
\* one model and the flag not set there is no MODEL and no ENDMDL record.
C13_ModelRecords ==
    \A k \in 1..Len(saves) :
        saves[k].exc = "none" =>
            IF MultiModelOutput
            THEN \A m \in 1..Len(models) :
                    IF Accepted(saves[k], "M", m)
                    THEN /\ LinesOfModel(saves[k], m, "MODEL")
                                = {SetMin(RecordsOfModel(saves[k], m))}
                         /\ \A i \in LinesOfModel(saves[k], m, "MODEL") :
                                saves[k].lines[i].serial_num = models[m].serial_num
                         /\ IF AtomLinesOfModel(saves[k], m) = {}
                            THEN LinesOfModel(saves[k], m, "ENDMDL") = {}
                            ELSE LinesOfModel(saves[k], m, "ENDMDL")
                                     = {SetMax(RecordsOfModel(saves[k], m))}
                    ELSE RecordsOfModel(saves[k], m) = {}
            ELSE \A i \in 1..Len(saves[k].lines) :
                    saves[k].lines[i].record_type \notin {"MODEL", "ENDMDL"}

\* A save of a structure of two models wrote MODEL, atom records and ENDMDL for one
\* model, and MODEL alone for the other, which holds a residue.
C13_Witness ==
    \E k \in 1..Len(saves), m1, m2 \in 1..Len(models) :
        /\ saves[k].exc = "none"
        /\ MultiModelOutput
        /\ AtomLinesOfModel(saves[k], m1) # {}
        /\ LinesOfModel(saves[k], m1, "ENDMDL") # {}
        /\ Accepted(saves[k], "M", m2)
        /\ LinesOfModel(saves[k], m2, "MODEL") # {}
        /\ LinesOfModel(saves[k], m2, "ENDMDL") = {}
        /\ \E c \in SeqToSet(models[m2].children) : chains[c].children # <<>>

\* The number of the records at the positions of S that come up to position i.
Rank(S, i) == Cardinality({j \in S : j <= i})

SerialGiven(a) == CHOOSE n \in {serial + dom.serial_step * (a - 1) : serial \in dom.serials} : TRUE

\* C15: in a save with keep numbering every atom record carries the serial number
\* its atom was given when it was added to the builder.
C15_KeepSerialNumbers ==
    \A k \in 1..Len(saves) :
        saves[k].atom_numbering = "keep" =>
            \A i \in 1..Len(saves[k].src) :
                IsAtomLine(saves[k].lines[i]) =>
                    saves[k].lines[i].atom_number = SerialGiven(saves[k].src[i].atom)

\* A keep save wrote the record of an atom after it had rejected an atom added
\* earlier.
C15_Witness ==
    \E k \in 1..Len(saves) : \E i \in 1..Len(saves[k].src) :
        /\ saves[k].atom_numbering = "keep"
        /\ IsAtomLine(saves[k].lines[i])
        /\ \E a \in 1..Len(atoms) :
              /\ a < saves[k].src[i].atom
              /\ WasAsked(saves[k], "A", a)
              /\ \A j \in 1..Len(saves[k].src) : saves[k].src[j].atom # a

\* The objects save visits below object x of the tree, as <<level, object>> pairs.
Below(x) ==
    CASE x[1] = "M" -> {<<"C", c>> : c \in SeqToSet(models[x[2]].children)}
      [] x[1] = "C" ->
            {<<"R", r>> : r \in SeqToSet(UnpackedResidues(dresidues, chains[x[2]]))}
      [] x[1] = "R" ->
            {<<"A", a>> : a \in SeqToSet(UnpackedAtoms(datoms, residues[x[2]]))}
      [] OTHER -> {}

\* C16: save consults the predicate of a chain, residue or atom only after the
\* predicate of the object right above it was consulted and accepted that object,
\* and an atom record is written only for an atom that was accepted together with
\* its residue, chain and model.
C16_PredicateOrder ==
    \A k \in 1..Len(saves) :
        /\ \A i \in 1..Len(saves[k].asked) :
              saves[k].asked[i].level # "M" =>
                  \E j \in 1..(i - 1) :
                      /\ saves[k].asked[j].ok
                      /\ <<saves[k].asked[i].level, saves[k].asked[i].o>>
                            \in Below(<<saves[k].asked[j].level, saves[k].asked[j].o>>)
        /\ \A i \in 1..Len(saves[k].src) :
              IsAtomLine(saves[k].lines[i]) =>
                  /\ Accepted(saves[k], "M", saves[k].src[i].model)
                  /\ Accepted(saves[k], "C", saves[k].src[i].chain)
                  /\ Accepted(saves[k], "R", saves[k].src[i].residue)
                  /\ Accepted(saves[k], "A", saves[k].src[i].atom)

\* A save with a policy of the caller's wrote an atom record and rejected an object
\* that has objects below it, none of which it consulted a predicate for.
C16_Witness ==
    \E k \in 1..Len(saves) :
        /\ saves[k].select.kind = "Custom"
        /\ \E i \in 1..Len(saves[k].src) : IsAtomLine(saves[k].lines[i])
        /\ \E x \in saves[k].select.rejected :
              /\ WasAsked(saves[k], x[1], x[2])
              /\ ~Accepted(saves[k], x[1], x[2])
              /\ Below(x) # {}
              /\ \A y \in Below(x) : ~WasAsked(saves[k], y[1], y[2])

\* DisorderedAtom d is an entry of a residue of the tree PDBIO holds.
InTree(d) ==
    \E r \in 1..Len(residues) :
        /\ <<"R", r>> \in TreeObjects
        /\ DARef(d) \in SeqToSet(residues[r].children)

\* The positions of the atom records save s wrote for the variants of DisorderedAtom d.
LinesOfVariants(s, d) ==
    {i \in 1..Len(s.src) :
        IsAtomLine(s.lines[i]) /\ s.src[i].atom \in SeqToSet(datoms[d].children)}

\* C17: a save with the collapsing policy writes, for every DisorderedAtom of the
\* tree with the variants A and B, exactly one atom record: that of the A variant,
\* with a blank altloc field, and the A variant's disorder flag is cleared.
C17_CollapseWritesVariantA ==
    \A k \in 1..Len(saves) :
        (saves[k].select.kind = "NotDisordered" /\ saves[k].exc = "none") =>
            \A d \in 1..Len(datoms) :
                (InTree(d) /\ SeqToSet(datoms[d].keys) = {"A", "B"}) =>
                    /\ Cardinality(LinesOfVariants(saves[k], d)) = 1
                    /\ \A i \in LinesOfVariants(saves[k], d) :
                          /\ saves[k].src[i].atom
                                = GetChild(datoms[d].keys, datoms[d].children, "A")
                          /\ saves[k].lines[i].altloc = Blank
                    /\ atoms[GetChild(datoms[d].keys, datoms[d].children, "A")]
                           .disordered_flag = 0

\* Residue r of the tree is flagged disordered and each of its atoms is disordered
\* with an altloc other than A.
NothingToCollapse(r) ==
    /\ <<"R", r>> \in TreeObjects
    /\ residues[r].disordered # 0
    /\ AtomsOf(r) # {}
    /\ \A a \in AtomsOf(r) : atoms[a].disordered_flag # 0 /\ atoms[a].altloc # "A"

\* The chains of the tree whose only residue is r.
ChainsOfOnly(r) ==
    {c \in 1..Len(chains) :
        <<"C", c>> \in TreeObjects /\ UnpackedResidues(dresidues, chains[c]) = <<r>>}

\* C18: a save with the collapsing policy writes no atom record for a disordered
\* residue all of whose atoms are disordered with an altloc other than A, leaves
\* the residue, its atoms and its DisorderedAtoms as they were, and writes no TER
\* record for a chain whose only residue it is.
C18_RejectedResidueUntouched ==
    [][(/\ last'.op = "save"
        /\ Len(saves') = Len(saves) + 1
        /\ saves'[Len(saves')].select.kind = "NotDisordered")
       => \A r \in 1..Len(residues) :
             NothingToCollapse(r) =>
                 /\ \A i \in 1..Len(saves'[Len(saves')].src) :
                       saves'[Len(saves')].src[i].residue # r
                 /\ residues'[r] = residues[r]
                 /\ \A a \in AtomsOf(r) : atoms'[a] = atoms[a]
                 /\ \A d \in 1..Len(datoms) :
                       DARef(d) \in SeqToSet(residues[r].children) =>
                           datoms'[d] = datoms[d]
                 /\ \A c \in ChainsOfOnly(r) :
                       TerLinesOfChain(saves'[Len(saves')], c) = {}]_vars

\* A save with the collapsing policy has met such a residue, the only one of its
\* chain, and rejected it.
C18_Witness ==
    /\ last.op = "save"
    /\ saves[Len(saves)].select.kind = "NotDisordered"
    /\ \E r \in 1..Len(residues) :
          /\ NothingToCollapse(r)
          /\ ChainsOfOnly(r) # {}
          /\ WasAsked(saves[Len(saves)], "R", r)
          /\ ~Accepted(saves[Len(saves)], "R", r)

\* C19: a second save on the same structure with the same policy, numbering mode
\* and arguments writes the same records as the first and ends the same way.
C19_SaveTwice ==
    Len(saves) = 2 =>
        /\ saves[2].lines = saves[1].lines
        /\ saves[2].exc = saves[1].exc

\* Two saves with the collapsing policy were made, and the first wrote the A variant
\* of a DisorderedAtom, blanking its altloc.
C19_Witness ==
    /\ Len(saves) = 2
    /\ saves[1].select.kind = "NotDisordered"
    /\ \E d \in 1..Len(datoms) :
          /\ HasId(datoms[d].keys, "A")
          /\ LinesOfVariants(saves[1], d) # {}
          /\ atoms[GetChild(datoms[d].keys, datoms[d].children, "A")].altloc = Blank

\* C20: after a save to a path the file save opened is closed, whether save returned
\* or raised, and after a save to an open handle the handle is not closed.
C20_SinkReleased ==
    \A k \in 1..Len(saves) :
        /\ saves[k].file = "path" => files[saves[k].fp].closed
        /\ saves[k].file # "path" => ~files[saves[k].fp].closed

\* The residue of the tree that lists atom a.
ResidueOf(a) ==
    CHOOSE r \in 1..Len(residues) :
        a \in SeqToSet(UnpackedAtoms(datoms, residues[r]))

\* The record of atom a breaks the format: its element is no known symbol, its
\* occupancy is neither a number nor None, or its residue number is too wide.
FormatViolation(a) ==
    \/ /\ atoms[a].element # NoElement
       /\ Capitalize(UpperCase(atoms[a].element)) \notin KnownElements
    \/ atoms[a].occupancy = InvalidOccupancy
    \/ residues[ResidueOf(a)].id[2] = WideResSeq

\* The last predicate call of save s: the atom at which a raising save stopped.
LastAsked(s) == s.asked[Len(s.asked)]

\* C21: save raises exactly when it meets an accepted atom whose record breaks the
\* format; it then has written no record for that atom and none after it (no TER
\* of its chain, no ENDMDL of its model, no END, nothing of a later chain or model);
\* an atom without occupancy breaks nothing and gets a record with a blank
\* occupancy field.
C21_FormatViolationFatal ==
    \A k \in 1..Len(saves) :
        /\ saves[k].exc = "none" =>
              \A i \in 1..Len(saves[k].asked) :
                  (saves[k].asked[i].level = "A" /\ saves[k].asked[i].ok)
                      => ~FormatViolation(saves[k].asked[i].o)
        /\ saves[k].exc # "none" =>
              /\ saves[k].asked # <<>>
              /\ LastAsked(saves[k]).level = "A"
              /\ LastAsked(saves[k]).ok
              /\ FormatViolation(LastAsked(saves[k]).o)
              /\ Len(saves[k].lines) = Len(saves[k].src)
              /\ \A i \in 1..Len(saves[k].src) :
                    /\ saves[k].lines[i].record_type \notin {"ENDMDL", "END"}
                    /\ saves[k].src[i].atom # LastAsked(saves[k]).o
                    /\ Accepted(saves[k], "M", saves[k].src[i].model)
                    /\ saves[k].lines[i].record_type # "MODEL"
                          => Accepted(saves[k], "C", saves[k].src[i].chain)
                    /\ saves[k].lines[i].record_type = "TER"
                          => LastAsked(saves[k]).o \notin
                                 UNION {SeqToSet(UnpackedAtoms(datoms, residues[r])) :
                                     r \in SeqToSet(UnpackedResidues(dresidues,
                                                        chains[saves[k].src[i].chain]))}
        /\ \A i \in 1..Len(saves[k].src) :
              IsAtomLine(saves[k].lines[i]) =>
                  /\ ~FormatViolation(saves[k].src[i].atom)
                  /\ saves[k].lines[i].occupancy.blank
                        = (atoms[saves[k].src[i].atom].occupancy = AbsentOccupancy)
                  /\ ~saves[k].lines[i].occupancy.blank =>
                        saves[k].lines[i].occupancy.value
                            = atoms[saves[k].src[i].atom].occupancy

\* A save that writes MODEL records wrote the record of an atom without occupancy
\* and raised at the next atom, whose occupancy is no number.
C21_Witness ==
    \E k \in 1..Len(saves) :
        /\ saves[k].exc = "TypeError"
        /\ saves[k].model_flag # 0
        /\ \E i \in 1..Len(saves[k].src) :
              /\ IsAtomLine(saves[k].lines[i])
              /\ saves[k].lines[i].occupancy.blank

\* What builder b holds, by value: its cursors with the trees below them.
BuilderValue(b) ==
    [structure |-> IF sb[b].structure = None THEN <<>>
                   ELSE <<StructureValue(sb[b].structure)>>,
     model |-> IF sb[b].model = None THEN <<>> ELSE <<ModelValue(sb[b].model)>>,
     chain |-> IF sb[b].chain = None THEN <<>> ELSE <<ChainValue(sb[b].chain)>>,
     residue |-> IF sb[b].residue.kind \in {"R", "DR"}
                 THEN <<ResidueEntryValue(sb[b].residue)>>
                 ELSE <<sb[b].residue.kind>>,
     atom |-> IF sb[b].atom = None THEN <<>> ELSE <<atoms[sb[b].atom]>>,
     segid |-> sb[b].segid]

\* The models, chains and residue entries builder b can reach from its cursors.
BuilderModels(b) ==
    (IF sb[b].structure = None THEN {}
     ELSE SeqToSet(structures[sb[b].structure].children))
    \cup ({sb[b].model} \ {None})

BuilderChains(b) ==
    UNION {SeqToSet(models[m].children) : m \in BuilderModels(b)}
    \cup ({sb[b].chain} \ {None})

BuilderResidues(b) ==
    UNION {SeqToSet(chains[c].children) : c \in BuilderChains(b)}
    \cup (IF sb[b].residue.kind \in {"R", "DR"} THEN {sb[b].residue} ELSE {})

\* C22: an event fed to one builder leaves what every other builder holds as it
\* was, and no structure, model, chain or residue is held by two builders; so each
\* builder holds after every interleaving what it holds when fed alone.
C22_BuildersIndependent ==
    [][\A b1, b2 \in Builders :
          b1 # b2 =>
              /\ b1 # last'.b => BuilderValue(b1)' = BuilderValue(b1)
              /\ sb'[b1].structure = None \/ sb'[b1].structure # sb'[b2].structure
              /\ BuilderModels(b1)' \cap BuilderModels(b2)' = {}
              /\ BuilderChains(b1)' \cap BuilderChains(b2)' = {}
              /\ BuilderResidues(b1)' \cap BuilderResidues(b2)' = {}]_vars

\* An atom was added to the residue of one builder while the other builder holds a
\* residue of its own under the same key.
C22_Witness ==
    /\ last.op = "init_atom"
    /\ last.residue.kind = "R"
    /\ \E b \in Builders :
          /\ b # last.b
          /\ sb[b].residue.kind = "R"
          /\ residues[sb[b].residue.oid].id = residues[last.residue.oid].id
          /\ residues[sb[b].residue.oid].children = <<>>
          /\ residues[last.residue.oid].children # <<>>

\* ---- C23

\* The reader has read the whole file.
ReadBack ==
    /\ reader.builder # None
    /\ sb[reader.builder].structure # None
    /\ reader.pos > Len(files[saves[1].fp].lines)

\* The models, chains, residue keys and names and atom names of a tree whose
\* residues are plain Residues.
ResidueNames(x) ==
    [id |-> residues[x.oid].id, resname |-> residues[x.oid].resname,
     atoms |-> [k \in 1..Len(residues[x.oid].children) |->
                   KeyOfAtom(residues[x.oid].children[k])]]

ChainNames(c) ==
    [id |-> chains[c].id,
     residues |-> [k \in 1..Len(chains[c].children) |->
                      ResidueNames(chains[c].children[k])]]

ModelNames(m) ==
    [id |-> models[m].id,
     chains |-> [k \in 1..Len(models[m].children) |-> ChainNames(models[m].children[k])]]

TreeNames(s) ==
    [k \in 1..Len(structures[s].children) |-> ModelNames(structures[s].children[k])]

\* Every model of Structure s holds a chain, every chain a residue, every residue
\* an atom.
NothingEmpty(s) ==
    \A m \in SeqToSet(structures[s].children) :
        /\ models[m].children # <<>>
        /\ \A c \in SeqToSet(models[m].children) :
               /\ chains[c].children # <<>>
               /\ \A x \in SeqToSet(chains[c].children) :
                      x.kind = "R" => residues[x.oid].children # <<>>

\* C23: a tree built from events without disorder, written with the default policy
\* and built again from the records written, is equal to the first in its models,
\* chains, residue keys and names and atom names. Stated for the runs in which no
\* event raised or was dropped and nothing in the tree is empty.
C23_RoundTrip ==
    (/\ ReadBack
     /\ datoms = <<>>
     /\ dresidues = <<>>
     /\ hist.raised = 0
     /\ hist.dropped = 0
     /\ structures[io.structure].children # <<>>
     /\ NothingEmpty(io.structure))
    => TreeNames(sb[reader.builder].structure) = TreeNames(io.structure)

\* ---- C24

\* The atom objects held by the tree PDBIO has: the atoms of every residue of every
\* chain, the variants of DisorderedResidues and of DisorderedAtoms included.
ResiduesIn(c) ==
    UNION {IF x.kind = "R" THEN {x.oid} ELSE SeqToSet(dresidues[x.oid].children) :
           x \in SeqToSet(chains[c].children)}

VariantsInTree ==
    UNION {AtomsOf(r) :
           r \in UNION {ResiduesIn(c) :
                        c \in UNION {SeqToSet(models[m].children) :
                                     m \in SeqToSet(structures[io.structure].children)}}}

\* Save s wrote one atom record for each atom variant of the tree and no other.
OneRecordEach(s) ==
    /\ \A a \in VariantsInTree :
           Cardinality({i \in 1..Len(s.lines) :
                           IsAtomLine(s.lines[i]) /\ s.src[i].atom = a}) = 1
    /\ \A i \in 1..Len(s.lines) :
           IsAtomLine(s.lines[i]) => s.src[i].atom \in VariantsInTree

LastSave == saves[Len(saves)]

\* C24: a save with the default policy that does not raise writes exactly one atom
\* record for every atom variant of the tree, the variants of every
\* DisorderedResidue and DisorderedAtom included, and changes no object of the tree.
C24_DefaultPolicyWritesAll ==
    [][(/\ Len(saves') = Len(saves) + 1
        /\ LastSave'.select = Select
        /\ LastSave'.exc = "none")
       => /\ OneRecordEach(LastSave)'
          /\ UNCHANGED heap]_vars

\* The default policy wrote a tree that holds a DisorderedResidue of two variants
\* and a DisorderedAtom of two variants.
C24_Witness ==
    /\ saves # <<>>
    /\ LastSave.select = Select
    /\ LastSave.exc = "none"
    /\ \E c \in 1..Len(chains), x \in DOMAIN dresidues :
          /\ <<"C", c>> \in TreeObjects
          /\ DRRef(x) \in SeqToSet(chains[c].children)
          /\ Len(dresidues[x].children) = 2
    /\ \E d \in 1..Len(datoms) : InTree(d) /\ Len(datoms[d].children) = 2

\* ---- C25

\* C25: a save with the default policy writes the atom records in the order in
\* which the atom events were fed to the builder. Atom objects are numbered in the
\* order of the events that made them.
C25_RecordsInEventOrder ==
    \A k \in 1..Len(saves) :
        saves[k].select = Select =>
            \A i, j \in 1..Len(saves[k].lines) :
                (/\ i < j
                 /\ IsAtomLine(saves[k].lines[i])
                 /\ IsAtomLine(saves[k].lines[j]))
                => saves[k].src[i].atom < saves[k].src[j].atom

\* ---- C26

\* Residue entry x is held by Chain c, directly or as a variant of a
\* DisorderedResidue of c.
HeldByChain(c, x) ==
    \/ x \in SeqToSet(chains[c].children)
    \/ /\ x.kind = "R"
       /\ \E y \in SeqToSet(chains[c].children) :
              y.kind = "DR" /\ x.oid \in SeqToSet(dresidues[y.oid].children)

\* C26: the cursors of a builder are consistent: the current model is a child of
\* the current structure, the current chain a child of the current model, and the
\* current residue, when there is one, is held by the current chain.
C26_CursorConsistency ==
    \A b \in Builders :
        /\ sb[b].model # None =>
               /\ sb[b].structure # None
               /\ sb[b].model \in SeqToSet(structures[sb[b].structure].children)
        /\ sb[b].chain # None =>
               /\ sb[b].model # None
               /\ sb[b].chain \in SeqToSet(models[sb[b].model].children)
        /\ sb[b].residue.kind \in {"R", "DR"} =>
               /\ sb[b].chain # None
               /\ HeldByChain(sb[b].chain, sb[b].residue)

\* ---- C27

\* Every atom stored directly in a residue has a blank altloc, so that an atom with
\* another altloc is held only as a variant of a DisorderedAtom.
PlainAtomsBlank ==
    \A r \in 1..Len(residues) :
        \A x \in SeqToSet(residues[r].children) :
            x.kind = "A" => atoms[x.oid].altloc = Blank

\* C27: after every builder event the atoms stored directly in a residue have a
\* blank altloc, no DisorderedAtom has lost a variant it had, and every name of a
\* residue that held a DisorderedAtom still holds one.
C27_DisorderedAtomsKept ==
    [][/\ PlainAtomsBlank'
       /\ \A d \in 1..Len(datoms) :
              SeqToSet(datoms[d].children) \subseteq SeqToSet(datoms'[d].children)
       /\ \A r \in 1..Len(residues) :
              \A i \in 1..Len(residues[r].children) :
                  residues[r].children[i].kind = "DA" =>
                      \E j \in 1..Len(residues'[r].children) :
                          /\ residues'[r].children[j].kind = "DA"
                          /\ AtomKey(atoms', datoms', residues'[r].children[j])
                                 = KeyOfAtom(residues[r].children[i])]_vars

====
